---- MODULE Spec2Model ----
(***************************************************************************)
(* A model of the NativeAOT reflection-data reader: the variable-length    *)
(* integer codec (native_format/reader.rs), the native hashtable           *)
(* (native_format/hashtable.rs, parser.rs), the external references table  *)
(* (native_format/ref_table.rs) and the method-table scanner (binary.rs,   *)
(* binary/headers/mt.rs).                                                  *)
(*                                                                         *)
(* Numbers.  TLC integers are 32-bit signed.  i32 values are modelled      *)
(* exactly.  u32 values are modelled for 0 .. 2^31-1.  u64 values (VAs)    *)
(* saturate at VaTop: every u64 at or above VaTop is represented by VaTop, *)
(* and every modelled image lies wholly below it, so each comparison the   *)
(* code makes on a VA has the outcome it has on the true value.            *)
(***************************************************************************)
EXTENDS Integers, Sequences, FiniteSets, TLC

VARIABLES
    cdc,    \* the codec: the last decoder call (input bytes, offset, result)
    rt,     \* the external references table: the last get_va_from_index call
    ht,     \* the native hashtable: the table and the iterator being driven
    sc,     \* the method-table scanner: scan_method_tables' locals
    hd,     \* a typed handle: the last from_value call
    tg,     \* a section tag: the last ReadyToRunSectionType::from_u32 call
    ld,     \* load_pe: the scan for the ReadyToRun header, offset by offset
    md,     \* the metadata reader: the last get_full_name call
    ida     \* the program run: main and dump_ida

vars == <<cdc, rt, ht, sc, hd, tg, ld, md, ida>>

(***************************************************************************)
(* Bit arithmetic on naturals below 2^31.                                  *)
(***************************************************************************)
RECURSIVE BitAnd(_, _)
BitAnd(a, b) ==
    IF a = 0 \/ b = 0 THEN 0
    ELSE (IF a % 2 = 1 /\ b % 2 = 1 THEN 1 ELSE 0) + 2 * BitAnd(a \div 2, b \div 2)

RECURSIVE BitOr(_, _)
BitOr(a, b) ==
    IF a = 0 THEN b
    ELSE IF b = 0 THEN a
    ELSE (IF a % 2 = 1 \/ b % 2 = 1 THEN 1 ELSE 0) + 2 * BitOr(a \div 2, b \div 2)

RECURSIVE Pow2(_)
Pow2(n) == IF n = 0 THEN 1 ELSE 2 * Pow2(n - 1)

Shl(a, n) == a * Pow2(n)
Shr(a, n) == a \div Pow2(n)

\* 2^31 - 1: the largest i32, and the value every u64 at or above it is represented by.
VaTop == (Pow2(30) - 1) + Pow2(30)
Sat64(x) == IF x < 0 \/ x >= VaTop THEN VaTop ELSE x

\* F applied to the value of x: x is evaluated once, whatever F does with it
With(x, F(_)) == CHOOSE y \in {F(v) : v \in {x}} : TRUE

(***************************************************************************)
(* NativeReader: a borrowed byte slice, here a sequence of bytes; offset o *)
(* of the slice is element o + 1 of the sequence.                          *)
(***************************************************************************)
Byte == 0 .. 255

Ok(v, o) == [ok |-> TRUE, val |-> v, off |-> o]
BadImage(o) == [ok |-> FALSE, err |-> "BadImage", off |-> o]
Panic(o) == [ok |-> FALSE, err |-> "panic", off |-> o]

\* data.get(o): is offset o inside the slice
InSlice(data, o) == o >= 0 /\ o < Len(data)
\* data.get(o .. o + n)
InSliceRange(data, o, n) == o >= 0 /\ o + n <= Len(data)

ensure_offset_in_range(data, offset, look_ahead) ==
    ~(offset < 0 \/ offset + look_ahead >= Len(data))

\* u32::from_le_bytes / u16 / u64, on the n bytes at offset o (which are in the slice)
RECURSIVE LeValue(_, _, _)
LeValue(data, o, n) ==
    IF n = 0 THEN 0 ELSE data[o + 1] + 256 * LeValue(data, o + 1, n - 1)

\* u64::from_le_bytes, saturated at VaTop
LeValue64(data, o) ==
    IF \E i \in 4 .. 7 : data[o + i + 1] # 0 THEN VaTop
    ELSE IF data[o + 4] >= 128 THEN VaTop
    ELSE Sat64(LeValue(data, o, 4))

\* u32::from_le_bytes(..) as i32: the two's complement reading of 4 bytes
LeValueI32(data, o) ==
    LET low == LeValue(data, o, 3) + 16777216 * (data[o + 4] % 128)
    IN  IF data[o + 4] >= 128 THEN (low - 1073741824) - 1073741824 ELSE low

read_u8(data, offset) ==
    IF InSliceRange(data, offset, 1) THEN Ok(data[offset + 1], offset) ELSE BadImage(offset)
read_u16(data, offset) ==
    IF InSliceRange(data, offset, 2) THEN Ok(LeValue(data, offset, 2), offset) ELSE BadImage(offset)
read_u32(data, offset) ==
    IF InSliceRange(data, offset, 4) THEN Ok(LeValue(data, offset, 4), offset) ELSE BadImage(offset)
read_u32_as_i32(data, offset) ==
    IF InSliceRange(data, offset, 4) THEN Ok(LeValueI32(data, offset), offset) ELSE BadImage(offset)
\* the 64-bit raw forms keep their 8 little-endian bytes as the value
read_u64(data, offset) ==
    IF InSliceRange(data, offset, 8)
    THEN Ok([i \in 1 .. 8 |-> data[offset + i]], offset)
    ELSE BadImage(offset)

\* reader.rs:67-72, 79-81, 88-91: the value of the 2-, 3- and 4-byte unsigned forms
unsigned_value_2(val, b1) == BitOr(Shr(val, 2), Shl(b1, 6))
unsigned_value_3_low(val, b1, b2) == BitOr(BitOr(Shr(val, 3), Shl(b1, 5)), Shl(b2, 12))
unsigned_value_3(val, b1, b2) == BitOr(BitOr(Shr(val, 3), Shl(b1, 5)), Shl(b2, 13))
unsigned_value_4(val, b1, b2, b3) ==
    BitOr(BitOr(BitOr(Shr(val, 4), Shl(b1, 4)), Shl(b2, 12)), Shl(b3, 20))

\* NativeReader::decode_unsigned(&self, offset: &mut usize): the result carries the
\* value and the offset as the call leaves it (also when it fails)
decode_unsigned(data, offset) ==
    IF ~ensure_offset_in_range(data, offset, 0) THEN BadImage(offset)
    ELSE
    LET val == data[offset + 1] IN
    IF BitAnd(val, 1) = 0 THEN Ok(Shr(val, 1), offset + 1)
    ELSE IF BitAnd(val, 2) = 0 THEN
        IF offset + 1 > Len(data) THEN BadImage(offset)
        ELSE IF ~InSlice(data, offset + 1) THEN BadImage(offset)
        ELSE Ok(unsigned_value_2(val, data[offset + 2]), offset + 2)
    ELSE IF BitAnd(val, 4) = 0 THEN
        IF offset + 2 >= Len(data) THEN BadImage(offset)
        ELSE Ok(unsigned_value_3(val, data[offset + 2], data[offset + 3]), offset + 3)
    ELSE IF BitAnd(val, 8) = 0 THEN
        IF offset + 3 >= Len(data) THEN BadImage(offset)
        ELSE Ok(unsigned_value_4(val, data[offset + 2], data[offset + 3], data[offset + 4]),
                offset + 4)
    ELSE IF BitAnd(val, 16) = 0 THEN
        \* *offset += 1; value = self.read_u32(*offset)?  (the offset stays at + 1)
        LET r == read_u32(data, offset + 1)
        IN  IF r.ok THEN Ok(r.val, offset + 1) ELSE BadImage(offset + 1)
    ELSE BadImage(offset)

\* reader.rs:109: (val as i8 >> 1) as i32, an arithmetic shift of the signed byte
signed_value_1(val) == (IF val >= 128 THEN val - 256 ELSE val) \div 2
\* reader.rs:116-122, 129-141, 148-166: the following bytes are read as u8 and
\* widened to i32 (`*v as i32`), so every fragment is zero-extended
signed_value_2(val, b1) == BitOr(Shr(val, 2), Shl(b1, 6))
signed_value_3(val, b1, b2) == BitOr(BitOr(Shr(val, 3), Shl(b1, 5)), Shl(b2, 13))
signed_value_4(val, b1, b2, b3) ==
    BitOr(BitOr(BitOr(Shr(val, 4), Shl(b1, 4)), Shl(b2, 12)), Shl(b3, 20))

\* NativeReader::decode_signed
decode_signed(data, offset) ==
    IF ~ensure_offset_in_range(data, offset, 0) THEN BadImage(offset)
    ELSE
    LET val == data[offset + 1] IN
    IF BitAnd(val, 1) = 0 THEN Ok(signed_value_1(val), offset + 1)
    ELSE IF BitAnd(val, 2) = 0 THEN
        IF offset + 1 > Len(data) THEN BadImage(offset)
        ELSE IF ~InSlice(data, offset + 1) THEN BadImage(offset)
        ELSE Ok(signed_value_2(val, data[offset + 2]), offset + 2)
    ELSE IF BitAnd(val, 4) = 0 THEN
        IF offset + 2 >= Len(data) THEN BadImage(offset)
        ELSE Ok(signed_value_3(val, data[offset + 2], data[offset + 3]), offset + 3)
    ELSE IF BitAnd(val, 8) = 0 THEN
        IF offset + 3 >= Len(data) THEN BadImage(offset)
        ELSE Ok(signed_value_4(val, data[offset + 2], data[offset + 3], data[offset + 4]),
                offset + 4)
    ELSE IF BitAnd(val, 16) = 0 THEN
        LET r == read_u32_as_i32(data, offset + 1)
        IN  IF r.ok THEN Ok(r.val, offset + 1) ELSE BadImage(offset + 1)
    ELSE BadImage(offset)

\* NativeReader::decode_unsigned_long
decode_unsigned_long(data, offset) ==
    IF ~InSlice(data, offset) THEN BadImage(offset)
    ELSE
    LET val == data[offset + 1] IN
    IF BitAnd(val, 31) # 31 THEN decode_unsigned(data, offset)
    ELSE IF BitAnd(val, 32) = 0 THEN
        LET r == read_u64(data, offset + 1)
        IN  IF r.ok THEN Ok(r.val, offset + 1) ELSE BadImage(offset + 1)
    ELSE BadImage(offset)

\* NativeReader::decode_signed_long
decode_signed_long(data, offset) ==
    IF ~InSlice(data, offset) THEN BadImage(offset)
    ELSE
    LET val == data[offset + 1] IN
    IF BitAnd(val, 31) # 31 THEN decode_signed(data, offset)
    ELSE IF BitAnd(val, 32) = 0 THEN
        LET r == read_u64(data, offset + 1)
        IN  IF r.ok THEN Ok(r.val, offset + 1) ELSE BadImage(offset + 1)
    ELSE BadImage(offset)

\* reader.rs:211-214: the range check made before the bytes are sliced
string_range_rejected(data, offset, length) ==
    LET end_offset == offset + length
    IN  end_offset < length \/ offset > Len(data)

\* NativeReader::decode_string.  &self.data[a .. b] panics when b > len.  The
\* modelled strings are ASCII, on which from_utf8_lossy keeps every byte.
decode_string(data, offset) ==
    LET l == decode_unsigned(data, offset) IN
    IF ~l.ok THEN l
    ELSE IF l.val = 0 THEN Ok(<<>>, l.off)
    ELSE IF string_range_rejected(data, l.off, l.val) THEN BadImage(l.off)
    ELSE IF l.off + l.val > Len(data) THEN Panic(l.off)
    ELSE Ok(SubSeq(data, l.off + 1, l.off + l.val), l.off)

\* NativeReader::skip_integer
skip_integer(data, offset) ==
    IF ~InSlice(data, offset) THEN BadImage(offset)
    ELSE
    LET val == data[offset + 1] IN
    IF BitAnd(val, 1) = 0 THEN Ok(<<>>, offset + 1)
    ELSE IF BitAnd(val, 2) = 0 THEN Ok(<<>>, offset + 2)
    ELSE IF BitAnd(val, 4) = 0 THEN Ok(<<>>, offset + 3)
    ELSE IF BitAnd(val, 8) = 0 THEN Ok(<<>>, offset + 4)
    ELSE IF BitAnd(val, 16) = 0 THEN Ok(<<>>, offset + 5)
    ELSE IF BitAnd(val, 32) = 0 THEN Ok(<<>>, offset + 9)
    ELSE BadImage(offset)

\* NativeReader::get_unsigned_encoding_size
get_unsigned_encoding_size(value) ==
    IF value < 128 THEN 1
    ELSE IF value < 128 * 128 THEN 2
    ELSE IF value < 128 * 128 * 128 THEN 3
    ELSE IF value < 128 * 128 * 128 * 128 THEN 4
    ELSE 5

(***************************************************************************)
(* The encodings the decoders are given.  The writer is not part of the    *)
(* repository: the encoders follow the format of the specification (4.1).  *)
(***************************************************************************)
RECURSIVE LeBytes(_, _)
LeBytes(n, count) ==
    IF count = 0 THEN <<>> ELSE <<n % 256>> \o LeBytes(n \div 256, count - 1)

\* the 4 little-endian bytes of an i32 (two's complement)
I32LeBytes(v) ==
    IF v >= 0 THEN LeBytes(v, 4)
    ELSE LET w == (v + Pow2(30)) + Pow2(30)
         IN  LeBytes(w % Pow2(24), 3) \o <<(w \div Pow2(24)) + 128>>

EncodeUnsigned(v) ==
    IF v < Pow2(7) THEN <<v * 2>>
    ELSE IF v < Pow2(14) THEN <<(v % 64) * 4 + 1>> \o LeBytes(v \div 64, 1)
    ELSE IF v < Pow2(21) THEN <<(v % 32) * 8 + 3>> \o LeBytes(v \div 32, 2)
    ELSE IF v < Pow2(28) THEN <<(v % 16) * 16 + 7>> \o LeBytes(v \div 16, 3)
    ELSE <<15>> \o LeBytes(v, 4)

EncodeSigned(v) ==
    IF v >= -Pow2(6) /\ v < Pow2(6) THEN <<(v % Pow2(7)) * 2>>
    ELSE IF v >= -Pow2(13) /\ v < Pow2(13)
        THEN LET u == v % Pow2(14) IN <<(u % 64) * 4 + 1>> \o LeBytes(u \div 64, 1)
    ELSE IF v >= -Pow2(20) /\ v < Pow2(20)
        THEN LET u == v % Pow2(21) IN <<(u % 32) * 8 + 3>> \o LeBytes(u \div 32, 2)
    ELSE IF v >= -Pow2(27) /\ v < Pow2(27)
        THEN LET u == v % Pow2(28) IN <<(u % 16) * 16 + 7>> \o LeBytes(u \div 16, 3)
    ELSE <<15>> \o I32LeBytes(v)

\* the 64-bit escape form: marker 0b011111, then the 8 raw bytes
EncodeLong(bytes8) == <<31>> \o bytes8

EncodeString(str) == EncodeUnsigned(Len(str)) \o str

(***************************************************************************)
(* The inputs of the codec's checks.                                       *)
(***************************************************************************)
\* how far around each width boundary the sampled integers reach
SampleSpread == 2
\* the longest sampled string
MaxStrLen == 3
\* the most bytes put in front of an encoding (the start offset of the decode)
MaxPrefix == 1

Around(b) == (b - SampleSpread) .. (b + SampleSpread)

U32Samples ==
    {v \in Around(0) \cup Around(Pow2(7)) \cup Around(Pow2(14)) \cup Around(Pow2(21))
           \cup Around(Pow2(28)) : v >= 0}
    \cup {VaTop - k : k \in 0 .. SampleSpread}

I32Samples ==
    Around(0) \cup Around(Pow2(6)) \cup Around(-Pow2(6))
    \cup Around(Pow2(13)) \cup Around(-Pow2(13))
    \cup Around(Pow2(20)) \cup Around(-Pow2(20))
    \cup Around(Pow2(27)) \cup Around(-Pow2(27))
    \cup {VaTop - k : k \in 0 .. SampleSpread}
    \cup {(k - Pow2(30)) - Pow2(30) : k \in 0 .. SampleSpread}

U64Samples ==
    { [i \in 1 .. 8 |-> IF i = k THEN 200 ELSE i] : k \in 1 .. 8 }

RECURSIVE StringsOfLen(_)
StringsOfLen(n) ==
    IF n = 0 THEN {<<>>}
    ELSE {<<c>> \o t : c \in {65, 66}, t \in StringsOfLen(n - 1)}
StringSamples == UNION {StringsOfLen(n) : n \in 0 .. MaxStrLen}

CodecKinds == {"u32", "i32", "u64", "string"}

SamplesOf(kind) ==
    CASE kind = "u32" -> U32Samples
      [] kind = "i32" -> I32Samples
      [] kind = "u64" -> U64Samples
      [] kind = "string" -> StringSamples

CodecInput(kind, v) ==
    [kind |-> kind, v |-> v,
     enc |-> CASE kind = "u32" -> EncodeUnsigned(v)
               [] kind = "i32" -> EncodeSigned(v)
               [] kind = "u64" -> EncodeLong(v)
               [] kind = "string" -> EncodeString(v)]

\* the decoders that read an encoding of each kind
DecodersOf(kind) ==
    CASE kind = "u32" -> {"decode_unsigned", "decode_unsigned_long"}
      [] kind = "i32" -> {"decode_signed", "decode_signed_long"}
      [] kind = "u64" -> {"decode_unsigned_long", "decode_signed_long"}
      [] kind = "string" -> {"decode_string"}

Zeros(n) == [i \in 1 .. n |-> 0]

\* a decoder call about to be made: the decoder, the slice and the start offset
CodecCall(op, in, data, offset, how) ==
    [op |-> op, kind |-> in.kind, v |-> in.v, enc_len |-> Len(in.enc),
     data |-> data, offset |-> offset, how |-> how,
     done |-> FALSE, res |-> <<>>]

CodecIdle == [op |-> "none", how |-> "none", done |-> FALSE]
RtIdle == [op |-> "none", done |-> FALSE]
HtIdle == [pc |-> "none"]
ScIdle == [pc |-> "none"]
HdIdle == [pc |-> "none"]
TgIdle == [pc |-> "none"]
LdIdle == [pc |-> "none"]
MdIdle == [pc |-> "none"]
IdaIdle == [pc |-> "none"]

\* The calls checked: a decoder is given a whole encoding at the offset where it
\* starts, or an encoding cut short after `cut` of its bytes, or is started at
\* or past the end of the slice.
CodecInit ==
    /\ \E kind \in CodecKinds, p \in 0 .. MaxPrefix :
        \E v \in SamplesOf(kind), op \in DecodersOf(kind) :
            LET in == CodecInput(kind, v) IN
            \/ cdc = CodecCall(op, in, Zeros(p) \o in.enc, p, "whole")
            \/ \E cut \in 0 .. (Len(in.enc) - 1) :
                cdc = CodecCall(op, in, Zeros(p) \o SubSeq(in.enc, 1, cut), p, "truncated")
            \/ cdc = CodecCall(op, in, in.enc, Len(in.enc) + p, "past_end")
            \/ /\ kind # "string"
               /\ cdc = CodecCall("skip_integer", in, Zeros(p) \o in.enc, p, "whole")
    /\ rt = RtIdle /\ ht = HtIdle /\ sc = ScIdle /\ hd = HdIdle /\ tg = TgIdle /\ ld = LdIdle /\ md = MdIdle /\ ida = IdaIdle

CodecReturn(r) == cdc' = [cdc EXCEPT !.done = TRUE, !.res = r]

DecodeUnsigned ==
    /\ ~cdc.done /\ cdc.op = "decode_unsigned"
    /\ CodecReturn(decode_unsigned(cdc.data, cdc.offset))

DecodeSigned ==
    /\ ~cdc.done /\ cdc.op = "decode_signed"
    /\ CodecReturn(decode_signed(cdc.data, cdc.offset))

DecodeUnsignedLong ==
    /\ ~cdc.done /\ cdc.op = "decode_unsigned_long"
    /\ CodecReturn(decode_unsigned_long(cdc.data, cdc.offset))

DecodeSignedLong ==
    /\ ~cdc.done /\ cdc.op = "decode_signed_long"
    /\ CodecReturn(decode_signed_long(cdc.data, cdc.offset))

DecodeString ==
    /\ ~cdc.done /\ cdc.op = "decode_string"
    /\ CodecReturn(decode_string(cdc.data, cdc.offset))

SkipInteger ==
    /\ ~cdc.done /\ cdc.op = "skip_integer"
    /\ CodecReturn(skip_integer(cdc.data, cdc.offset))

CodecNext ==
    /\ \/ DecodeUnsigned
       \/ DecodeSigned
       \/ DecodeUnsignedLong
       \/ DecodeSignedLong
       \/ DecodeString
       \/ SkipInteger
    /\ UNCHANGED <<rt, ht, sc, hd, tg, ld, md, ida>>

SpecCodec == CodecInit /\ [][CodecNext]_vars

(***************************************************************************)
(* The PE image.  The PE parser (pelite) is a dependency outside the       *)
(* repository; it is modelled after the interface the specification        *)
(* names (6, "PE dependency"): section headers (name, VirtualAddress,      *)
(* VirtualSize, file range), the file's bytes, and the conversions between *)
(* file offsets, RVAs and VAs.  An image is a record                       *)
(*   [ImageBase, SizeOfImage, sections, file]                              *)
(* whose sections are records [name, VirtualAddress, VirtualSize,          *)
(* PointerToRawData, SizeOfRawData] and whose file is a sequence of bytes. *)
(***************************************************************************)
PeOk(v) == [ok |-> TRUE, val |-> v]
PeErr == [ok |-> FALSE]

\* pe.section_headers().by_name(name)
by_name(img, name) ==
    LET hits == {i \in 1 .. Len(img.sections) : img.sections[i].name = name}
    IN  IF hits = {} THEN PeErr
        ELSE PeOk(img.sections[CHOOSE i \in hits : \A j \in hits : i <= j])

\* pe.section_headers().by_rva(rva)
by_rva(img, rva) ==
    LET hits == {i \in 1 .. Len(img.sections) :
                    /\ rva >= img.sections[i].VirtualAddress
                    /\ rva < img.sections[i].VirtualAddress + img.sections[i].VirtualSize}
    IN  IF hits = {} THEN PeErr
        ELSE PeOk(img.sections[CHOOSE i \in hits : \A j \in hits : i <= j])

\* sect.file_range()
file_range_start(sect) == sect.PointerToRawData
file_range_end(sect) == sect.PointerToRawData + sect.SizeOfRawData

rva_to_va(img, rva) ==
    IF rva = 0 \/ rva >= img.SizeOfImage THEN PeErr ELSE PeOk(img.ImageBase + rva)

va_to_rva(img, va) ==
    IF va = 0 \/ va < img.ImageBase \/ va - img.ImageBase >= img.SizeOfImage
    THEN PeErr ELSE PeOk(va - img.ImageBase)

file_offset_in(s, rva) ==
    IF ~s.ok THEN PeErr
    ELSE IF rva - s.val.VirtualAddress >= s.val.SizeOfRawData THEN PeErr
    ELSE PeOk(s.val.PointerToRawData + (rva - s.val.VirtualAddress))
rva_to_file_offset(img, rva) == With(by_rva(img, rva), LAMBDA s : file_offset_in(s, rva))

file_offset_to_rva(img, fo) ==
    LET hits == {i \in 1 .. Len(img.sections) :
                    /\ fo >= file_range_start(img.sections[i])
                    /\ fo < file_range_end(img.sections[i])}
    IN  IF hits = {} THEN PeErr
        ELSE LET sect == img.sections[CHOOSE i \in hits : \A j \in hits : i <= j]
             IN  PeOk(sect.VirtualAddress + (fo - sect.PointerToRawData))

(***************************************************************************)
(* View (native_format/mod.rs): a base VA and an offset over the image.    *)
(***************************************************************************)
View_new(va) == [base |-> va, offset |-> 0]
View_va(view) == Sat64(view.base + view.offset)
View_with_offset(view, offset) == View_new(Sat64(view.base + offset))

\* View::bytes: the file offset at which the slice image()[fo ..] starts
and_then_file_offset(img, rva) ==
    IF ~rva.ok THEN PeErr ELSE rva_to_file_offset(img, rva.val)
View_bytes(img, view) ==
    With(va_to_rva(img, View_va(view)), LAMBDA rva : and_then_file_offset(img, rva))

\* Read::read_exact over View::read, for n bytes: View::read copies
\* min(slice.len(), n) bytes and advances the offset by that many; read_exact
\* fails when the image ends before n bytes were copied.  On success the result
\* carries the file offset of the bytes and the view as the read leaves it.
read_exact_from(img, view, n, fo) ==
    IF ~fo.ok THEN [ok |-> FALSE, view |-> view]
    ELSE IF fo.val + n > Len(img.file)
        THEN [ok |-> FALSE,
              view |-> [view EXCEPT !.offset = view.offset + (Len(img.file) - fo.val)]]
    ELSE [ok |-> TRUE, fo |-> fo.val,
          view |-> [view EXCEPT !.offset = view.offset + n]]
View_read_exact(img, view, n) ==
    With(View_bytes(img, view), LAMBDA fo : read_exact_from(img, view, n, fo))

(***************************************************************************)
(* ExternalReferencesTable (native_format/ref_table.rs).                   *)
(***************************************************************************)
None == [some |-> FALSE]
Some(v) == [some |-> TRUE, val |-> v]

\* ExternalReferencesTable::new: count = size / size_of::<u32>()
ExternalReferencesTable_new(view, size) == [view |-> view, count |-> size \div 4]

\* index > self.count
index_rejected(index, count) == index > count

\* (view.base as i64 + i32::from_le_bytes(bytes) as i64) as Va
resolved_va_unsigned(base, img, fo) ==
    IF img.file[fo + 4] >= 128 THEN VaTop ELSE Sat64(base + LeValue(img.file, fo, 4))
resolved_va(base, img, fo) == Sat64(base + LeValueI32(img.file, fo))

\* ExternalReferencesTable::get_va_from_index
get_va_from_index(img, table, index) ==
    IF index_rejected(index, table.count) THEN None
    ELSE
    LET view == View_with_offset(table.view, index * 4)
        r == View_read_exact(img, view, 4)
    IN  IF ~r.ok THEN None
        ELSE Some(resolved_va(r.view.base, img, r.fo))

(***************************************************************************)
(* The inputs of the references table's checks: a table of 1 .. RtMaxSlots *)
(* self-relative offsets in a one-section image, followed in the file by   *)
(* RtTrailing more bytes or by nothing.                                    *)
(***************************************************************************)
RtMaxSlots == 2
RtTrailing == 4
RtExtra == 1
\* where the table lies: the image base and the RVA of its section
RtImageBase == 16 * 256
RtSectionRva == 2 * 256
RtOffsets == {-512, -1, 0, 260}

RECURSIVE RtTables(_)
RtTables(n) ==
    IF n = 0 THEN {<<>>}
    ELSE {<<o>> \o t : o \in RtOffsets, t \in RtTables(n - 1)}

RECURSIVE SlotBytes(_)
SlotBytes(slots) ==
    IF slots = <<>> THEN <<>> ELSE I32LeBytes(Head(slots)) \o SlotBytes(Tail(slots))

RtImage(slots, trailing) ==
    LET file == SlotBytes(slots) \o [i \in 1 .. trailing |-> 255]
    IN  [ImageBase |-> RtImageBase, SizeOfImage |-> 2 * RtSectionRva,
         sections |-> <<[name |-> ".rdata", VirtualAddress |-> RtSectionRva,
                         VirtualSize |-> Len(file), PointerToRawData |-> 0,
                         SizeOfRawData |-> Len(file)]>>,
         file |-> file]

\* The calls checked: the table's declared size covers its n slots, or one slot
\* more (RtExtra), and the file ends with the n slots or RtTrailing bytes later.
RefInit ==
    /\ \E n \in 1 .. RtMaxSlots, trailing \in {0, RtTrailing}, extra \in 0 .. RtExtra :
        \E slots \in RtTables(n), index \in 0 .. (n + extra + 1) :
            rt = [op |-> "get_va_from_index",
                  img |-> RtImage(slots, trailing),
                  slots |-> slots,
                  table |-> ExternalReferencesTable_new(
                                View_new(RtImageBase + RtSectionRva), 4 * (n + extra)),
                  index |-> index, done |-> FALSE, res |-> None]
    /\ cdc = CodecIdle /\ ht = HtIdle /\ sc = ScIdle /\ hd = HdIdle /\ tg = TgIdle /\ ld = LdIdle /\ md = MdIdle /\ ida = IdaIdle

GetVaFromIndex ==
    /\ rt.op = "get_va_from_index" /\ ~rt.done
    /\ rt' = [rt EXCEPT !.done = TRUE,
                        !.res = get_va_from_index(rt.img, rt.table, rt.index)]
    /\ UNCHANGED <<cdc, ht, sc, hd, tg, ld, md, ida>>

RefNext == GetVaFromIndex

SpecRef == RefInit /\ [][RefNext]_vars

\* the VA of slot `index` of the table
RtSlotVa == rt.table.view.base + 4 * rt.index
\* the image holds 4 bytes at slot `index`
RtSlotReadable == 4 * rt.index + 4 <= Len(rt.img.file)
\* the signed value stored at slot `index`: a slot the table was built with, or
\* the bytes FF FF FF FF that follow it in the file
RtSlotValue == IF rt.index < Len(rt.slots) THEN rt.slots[rt.index + 1] ELSE -1

\* C10 (as amended): get_va_from_index(index) returns None when index > count
\* or when the image holds no 4 bytes at table base + 4 * index, and otherwise
\* returns the VA of slot index (table base + 4 * index) plus the 32-bit
\* little-endian value stored there, taken as signed, positive or negative.
C10_GetVaFromIndex ==
    rt.done =>
        rt.res = (IF rt.index > rt.table.count \/ ~RtSlotReadable THEN None
                  ELSE Some(RtSlotVa + RtSlotValue))

\* a negative stored offset has been resolved from the second slot
C10_Witness ==
    /\ rt.done /\ rt.index = 1 /\ rt.table.count = 2
    /\ rt.slots[2] = -512
    /\ rt.res = Some(RtImageBase + RtSectionRva + 4 - 512)

\* C10 (as stated): None when index > count, and otherwise always the VA of
\* slot index plus the signed value stored in that slot.
C10_AsStated ==
    rt.done =>
        /\ rt.index > rt.table.count => rt.res = None
        /\ rt.index <= rt.table.count => rt.res = Some(RtSlotVa + RtSlotValue)

(***************************************************************************)
(* NativeParser (native_format/parser.rs): a reader and an offset.  Each   *)
(* operation returns its result with the parser's offset as it leaves it.  *)
(***************************************************************************)
\* NativeParser::get_u8
get_u8(data, offset) ==
    LET r == read_u8(data, offset)
    IN  IF r.ok THEN Ok(r.val, offset + 1) ELSE BadImage(offset)

\* parser.rs:36: pos as u32 + delta as u32.  A negative delta is a u32 of 2^32 -
\* |delta|, so the sum passes 2^32 exactly when pos + delta >= 0: the addition
\* then panics where overflow checks are compiled in and wraps to pos + delta
\* where they are not.
relative_offset_sum(pos, delta, overflow_checks, off) ==
    IF delta >= 0 THEN Ok(Sat64(pos + delta), off)
    ELSE IF pos + delta >= 0
        THEN (IF overflow_checks THEN Panic(off) ELSE Ok(pos + delta, off))
    ELSE Ok(VaTop, off)

\* NativeParser::get_relative_offset
get_relative_offset(data, offset, overflow_checks) ==
    LET pos == offset
        delta == decode_signed(data, offset)
    IN  IF ~delta.ok THEN delta
        ELSE relative_offset_sum(pos, delta.val, overflow_checks, delta.off)

\* NativeParser::get_parser_from_rel_offset: val is the new parser's offset
get_parser_from_rel_offset(data, offset, overflow_checks) ==
    get_relative_offset(data, offset, overflow_checks)

(***************************************************************************)
(* NativeHashtable (native_format/hashtable.rs).                           *)
(***************************************************************************)
\* hashtable.rs:32: ((1 << number_of_buckets_shift) - 1) as u32, in i32
bucket_mask_of(shift, overflow_checks) ==
    IF shift < 31 THEN Ok(Pow2(shift) - 1, 0)
    ELSE IF overflow_checks THEN Panic(0)
    ELSE Ok(VaTop, 0)

\* NativeHashtable::new(parser): val is the table
NativeHashtable_new(data, offset, overflow_checks) ==
    LET header == get_u8(data, offset) IN
    IF ~header.ok THEN header
    ELSE
    LET base_offset == header.off
        number_of_buckets_shift == Shr(header.val, 2)
        entry_index_size == BitAnd(header.val, 3)
        mask == bucket_mask_of(number_of_buckets_shift, overflow_checks)
    IN  IF number_of_buckets_shift > 31 THEN BadImage(header.off)
        ELSE IF entry_index_size > 2 THEN BadImage(header.off)
        ELSE IF ~mask.ok THEN Panic(header.off)
        ELSE Ok([base_offset |-> base_offset, bucket_mask |-> mask.val,
                 entry_index_size |-> entry_index_size], header.off)

\* NativeHashtable::get_parser_for_bucket: val is the new parser's offset, and
\* `end` is what the call writes to *offset
get_parser_for_bucket(data, table, bucket) ==
    LET step == IF table.entry_index_size = 0 THEN 1
                ELSE IF table.entry_index_size = 1 THEN 2 ELSE 4
        bucket_offset == table.base_offset + step * bucket
        start == IF step = 1 THEN read_u8(data, bucket_offset)
                 ELSE IF step = 2 THEN read_u16(data, bucket_offset)
                 ELSE read_u32(data, bucket_offset)
        end == IF step = 1 THEN read_u8(data, bucket_offset + 1)
               ELSE IF step = 2 THEN read_u16(data, bucket_offset + 2)
               ELSE read_u32(data, bucket_offset + 4)
    IN  IF ~start.ok \/ ~end.ok THEN [ok |-> FALSE, err |-> "BadImage"]
        ELSE [ok |-> TRUE, val |-> table.base_offset + start.val,
              end |-> end.val + table.base_offset]

\* hashcode as u32 >> 8
hashcode_shr8(hashcode) ==
    IF hashcode >= 0 THEN hashcode \div 256 ELSE (hashcode \div 256) + Pow2(24)
\* hashcode as u8
hashcode_low(hashcode) == hashcode % 256

\* hashtable.rs:74: the bucket a hashcode is looked up in
lookup_bucket(table, hashcode) == BitAnd(hashcode_shr8(hashcode), table.bucket_mask)

\* The state of one NativeHashtableIterator::next / NativeHashtableAllEntries::next
\* call in progress: the parser's offset, the entries read (the offset and the
\* value of each low-hash byte), and how the call ends (ret): "running",
\* "some" with the yielded parser's offset, "none", or "panic".
IterStep(offset, reads, ret, yield) ==
    [offset |-> offset, reads |-> reads, ret |-> ret, yield |-> yield]

\* hashtable.rs:113: the sorted short-circuit
past_target_never(low_hashcode, target) == FALSE
past_target(low_hashcode, target) == low_hashcode > target

\* NativeHashtableIterator::next
RECURSIVE NativeHashtableIterator_next(_, _, _, _, _, _)
NativeHashtableIterator_next(data, offset, end_offset, target, overflow_checks, reads) ==
    IF ~(offset < end_offset) THEN IterStep(offset, reads, "none", 0)
    ELSE
    LET low == get_u8(data, offset) IN
    IF ~low.ok THEN IterStep(low.off, reads, "none", 0)
    ELSE
    LET reads1 == Append(reads, [pos |-> offset, low |-> low.val]) IN
    IF low.val = target THEN
        LET sub == get_parser_from_rel_offset(data, low.off, overflow_checks)
        IN  IF sub.ok THEN IterStep(sub.off, reads1, "some", sub.val)
            ELSE IF sub.err = "panic" THEN IterStep(sub.off, reads1, "panic", 0)
            ELSE IterStep(sub.off, reads1, "none", 0)
    ELSE IF past_target(low.val, target) THEN IterStep(low.off, reads1, "none", 0)
    ELSE
        LET skip == skip_integer(data, low.off)
        IN  IF ~skip.ok THEN IterStep(skip.off, reads1, "none", 0)
            ELSE NativeHashtableIterator_next(data, skip.off, end_offset, target,
                                              overflow_checks, reads1)

\* hashtable.rs:155: the last bucket has been walked
last_bucket(current_bucket, bucket_mask) == current_bucket >= bucket_mask

\* NativeHashtableAllEntries::next: the result also carries current_bucket and
\* end_offset as the call leaves them
RECURSIVE NativeHashtableAllEntries_next(_, _, _, _, _, _, _)
NativeHashtableAllEntries_next(data, table, offset, end_offset, current_bucket, overflow_checks, reads) ==
    LET out(step) == step @@ [current_bucket |-> current_bucket,
                              end_offset |-> end_offset]
    IN
    IF offset < end_offset THEN
        LET low == get_u8(data, offset) IN
        IF ~low.ok THEN out(IterStep(low.off, reads, "none", 0))
        ELSE
        LET reads1 == Append(reads, [pos |-> offset, low |-> low.val])
            sub == get_parser_from_rel_offset(data, low.off, overflow_checks)
        IN  IF sub.ok THEN out(IterStep(sub.off, reads1, "some", sub.val))
            ELSE IF sub.err = "panic" THEN out(IterStep(sub.off, reads1, "panic", 0))
            ELSE out(IterStep(sub.off, reads1, "none", 0))
    ELSE IF last_bucket(current_bucket, table.bucket_mask)
        THEN out(IterStep(offset, reads, "none", 0))
    ELSE
        LET parser == get_parser_for_bucket(data, table, current_bucket + 1)
        IN  IF ~parser.ok
            THEN IterStep(offset, reads, "none", 0) @@
                 [current_bucket |-> current_bucket + 1, end_offset |-> end_offset]
            ELSE NativeHashtableAllEntries_next(data, table, parser.val, parser.end,
                                                current_bucket + 1, overflow_checks, reads)

(***************************************************************************)
(* The tables the hashtable's checks run on.  A table has 2^shift buckets, *)
(* bucket offsets of 1, 2 or 4 bytes and some entries of HtPool; an entry  *)
(* (hash, payload) is stored in bucket (hash >> 8) & mask as its low hash  *)
(* byte followed by the signed encoding of payload - (position of that     *)
(* relative-offset field).  Every bucket holds its entries sorted by low   *)
(* hash byte (HtPool is in that order).  The slice is HtPadLen bytes, the  *)
(* header byte, the bucket offsets, the entries, and zeros up to           *)
(* HtPadLen + HtTableRoom bytes.  Payloads lie before the table (near: 1-  *)
(* byte negative delta; far: 2-byte negative delta) or after it.           *)
(***************************************************************************)
HtPadLen == 80
HtTableRoom == 64
HtMaxShift == 1
HtMaxEntries == 3

HtPayloadFar == 2
HtPayloadNear == HtPadLen - 4
HtPayloadAfter == HtPadLen + HtTableRoom - 4

HtPool ==
    << [hash |-> 1, payload |-> HtPayloadNear],
       [hash |-> 2, payload |-> HtPayloadFar],
       [hash |-> 2, payload |-> HtPayloadAfter],
       [hash |-> -254, payload |-> HtPayloadNear + 1],
       [hash |-> 259, payload |-> HtPayloadAfter + 1],
       [hash |-> 516, payload |-> HtPayloadAfter + 2] >>

\* the hashcodes looked up: those stored, one that shares only its low byte with
\* a stored one, one below and one above all low bytes
HtLookupHashes == {0, 1, 2, -254, 259, 516, 4, 5}

HtSubPool(keep) == SelectSeq([i \in 1 .. Len(HtPool) |-> i], LAMBDA i : i \in keep)
HtEntries(keep) == [j \in 1 .. Len(HtSubPool(keep)) |-> HtPool[HtSubPool(keep)[j]]]

HtBucketOf(shift, hash) == BitAnd(hashcode_shr8(hash), Pow2(shift) - 1)
HtBucketEntries(tbl, k) ==
    SelectSeq(tbl.entries, LAMBDA e : HtBucketOf(tbl.shift, e.hash) = k)

RECURSIVE HtEncodeEntries(_, _)
HtEncodeEntries(entries, at) ==
    IF entries = <<>> THEN <<>>
    ELSE LET e == Head(entries)
             enc == <<hashcode_low(e.hash)>> \o EncodeSigned(e.payload - (at + 1))
         IN  enc \o HtEncodeEntries(Tail(entries), at + Len(enc))

HtStep(tbl) == IF tbl.eis = 0 THEN 1 ELSE IF tbl.eis = 1 THEN 2 ELSE 4
HtBase == HtPadLen + 1
HtEntriesStart(tbl) == HtBase + (Pow2(tbl.shift) + 1) * HtStep(tbl)

\* the bytes of buckets k, k + 1, ..., the first of them stored at offset `at`
RECURSIVE HtBucketsFrom(_, _, _)
HtBucketsFrom(tbl, k, at) ==
    IF k = Pow2(tbl.shift) THEN <<>>
    ELSE LET b == HtEncodeEntries(HtBucketEntries(tbl, k), at)
         IN  <<b>> \o HtBucketsFrom(tbl, k + 1, at + Len(b))

RECURSIVE Flatten(_)
Flatten(seqs) == IF seqs = <<>> THEN <<>> ELSE Head(seqs) \o Flatten(Tail(seqs))

\* the offsets (relative to the base offset) where buckets 0, 1, ... start, and
\* where the last one ends
RECURSIVE HtBounds(_, _)
HtBounds(buckets, at) ==
    IF buckets = <<>> THEN <<at>>
    ELSE <<at>> \o HtBounds(Tail(buckets), at + Len(Head(buckets)))

HtData(tbl) ==
    LET buckets == HtBucketsFrom(tbl, 0, HtEntriesStart(tbl))
        bounds == HtBounds(buckets, HtEntriesStart(tbl) - HtBase)
        index == Flatten([i \in 1 .. Len(bounds) |-> LeBytes(bounds[i], HtStep(tbl))])
        body == <<tbl.shift * 4 + tbl.eis>> \o index \o Flatten(buckets)
    IN  Zeros(HtPadLen) \o body \o Zeros(HtTableRoom - Len(body))

HtInit ==
    /\ \E shift \in 0 .. HtMaxShift, eis \in 0 .. 2, overflow_checks \in BOOLEAN :
        \E keep \in SUBSET (1 .. Len(HtPool)) :
            /\ Cardinality(keep) <= HtMaxEntries
            /\ LET tbl == [shift |-> shift, eis |-> eis, entries |-> HtEntries(keep)]
               IN  ht = [pc |-> "new", tbl |-> tbl, data |-> HtData(tbl),
                         overflow_checks |-> overflow_checks,
                         table |-> <<>>, mode |-> "none", hashcode |-> 0,
                         offset |-> 0, end_offset |-> 0, current_bucket |-> 0,
                         yields |-> <<>>, reads |-> <<>>]
    /\ cdc = CodecIdle /\ rt = RtIdle /\ sc = ScIdle /\ hd = HdIdle /\ tg = TgIdle /\ ld = LdIdle /\ md = MdIdle /\ ida = IdaIdle

\* NativeHashtable::new on a parser at the table's header byte
HashtableNew ==
    /\ ht.pc = "new"
    /\ LET r == NativeHashtable_new(ht.data, HtPadLen, ht.overflow_checks)
       IN  ht' = IF r.ok THEN [ht EXCEPT !.pc = "ready", !.table = r.val]
                 ELSE [ht EXCEPT !.pc = IF r.err = "panic" THEN "panic" ELSE "failed"]

\* NativeHashtable::lookup(hashcode)
Lookup ==
    /\ ht.pc = "ready"
    /\ \E hashcode \in HtLookupHashes :
        LET parser == get_parser_for_bucket(ht.data, ht.table,
                                            lookup_bucket(ht.table, hashcode))
        IN  ht' = IF parser.ok
                  THEN [ht EXCEPT !.pc = "lookup", !.mode = "lookup",
                                  !.hashcode = hashcode,
                                  !.offset = parser.val, !.end_offset = parser.end]
                  ELSE [ht EXCEPT !.pc = "failed", !.mode = "lookup",
                                  !.hashcode = hashcode]

\* one NativeHashtableIterator::next call made by the `for` loop over the
\* iterator, which stops at the first None
IteratorNext ==
    /\ ht.pc = "lookup"
    /\ LET r == NativeHashtableIterator_next(ht.data, ht.offset, ht.end_offset,
                    hashcode_low(ht.hashcode), ht.overflow_checks, ht.reads)
       IN  ht' = [ht EXCEPT
                    !.offset = r.offset,
                    !.reads = r.reads,
                    !.yields = IF r.ret = "some" THEN Append(@, r.yield) ELSE @,
                    !.pc = IF r.ret = "some" THEN "lookup"
                           ELSE IF r.ret = "none" THEN "lookup_done" ELSE "panic"]

\* NativeHashtable::enumerate_all, NativeHashtableAllEntries::new
EnumerateAll ==
    /\ ht.pc = "ready"
    /\ LET parser == get_parser_for_bucket(ht.data, ht.table, 0)
       IN  ht' = IF parser.ok
                 THEN [ht EXCEPT !.pc = "all", !.mode = "all", !.current_bucket = 0,
                                 !.offset = parser.val, !.end_offset = parser.end]
                 ELSE [ht EXCEPT !.pc = "failed", !.mode = "all"]

\* one NativeHashtableAllEntries::next call made by the `for` loop
AllEntriesNext ==
    /\ ht.pc = "all"
    /\ LET r == NativeHashtableAllEntries_next(ht.data, ht.table, ht.offset,
                    ht.end_offset, ht.current_bucket, ht.overflow_checks, ht.reads)
       IN  ht' = [ht EXCEPT
                    !.offset = r.offset,
                    !.end_offset = r.end_offset,
                    !.current_bucket = r.current_bucket,
                    !.reads = r.reads,
                    !.yields = IF r.ret = "some" THEN Append(@, r.yield) ELSE @,
                    !.pc = IF r.ret = "some" THEN "all"
                           ELSE IF r.ret = "none" THEN "all_done" ELSE "panic"]

HtNext ==
    /\ \/ HashtableNew
       \/ Lookup
       \/ IteratorNext
       \/ EnumerateAll
       \/ AllEntriesNext
    /\ UNCHANGED <<cdc, rt, sc, hd, tg, ld, md, ida>>

SpecHash == HtInit /\ [][HtNext]_vars

\* the payloads of a sequence of entries
HtPayloads(entries) == [i \in 1 .. Len(entries) |-> entries[i].payload]

\* s is a subsequence of t
RECURSIVE IsSubSeq(_, _)
IsSubSeq(s, t) ==
    IF s = <<>> THEN TRUE
    ELSE IF t = <<>> THEN FALSE
    ELSE IF Head(s) = Head(t) THEN IsSubSeq(Tail(s), Tail(t))
    ELSE IsSubSeq(s, Tail(t))

\* C7: when lookup(h) has run to its end, it has yielded, for every stored entry
\* with h_i = h, a sub-parser at that entry's payload offset, in the order the
\* entries are stored in the bucket.
C7_LookupYieldsMatches ==
    (ht.mode = "lookup" /\ ht.pc \in {"lookup_done", "panic"}) =>
        /\ ht.pc = "lookup_done"
        /\ IsSubSeq(HtPayloads(SelectSeq(ht.tbl.entries,
                                         LAMBDA e : e.hash = ht.hashcode)),
                    ht.yields)

\* C8: when enumerate_all has run to its end, it has yielded exactly one
\* sub-parser per stored entry, at the entry's payload offset, bucket 0 first
\* and the entries of each bucket in file order.
C8_EnumerateAllYieldsEach ==
    (ht.mode = "all" /\ ht.pc \in {"all_done", "panic"}) =>
        /\ ht.pc = "all_done"
        /\ ht.yields = HtPayloads(Flatten([k \in 1 .. Pow2(ht.tbl.shift) |->
                                              HtBucketEntries(ht.tbl, k - 1)]))

\* C9: during lookup(h), no entry of the bucket is read after one whose low
\* hash byte is greater than h & 0xFF, and reading such an entry ends the
\* iterator; an entry with a smaller low hash byte yields nothing and the next
\* read is right behind its relative-offset field.
C9_ShortCircuit ==
    ht.mode = "lookup" =>
        LET target == hashcode_low(ht.hashcode)
            n == Len(ht.reads)
        IN  /\ \A i \in 1 .. n - 1 : ht.reads[i].low <= target
            /\ (n > 0 /\ ht.reads[n].low > target) => ht.pc = "lookup_done"
            /\ Len(ht.yields) <= Cardinality({i \in 1 .. n : ht.reads[i].low = target})
            /\ \A i \in 1 .. n - 1 :
                  ht.reads[i].low < target =>
                      ht.reads[i + 1].pos = skip_integer(ht.data, ht.reads[i].pos + 1).off

\* a lookup that stepped over an entry, then read a greater low hash byte and
\* ended with entries of the bucket still unread
C9_Witness ==
    /\ ht.mode = "lookup" /\ ht.pc = "lookup_done"
    /\ Len(ht.reads) >= 2
    /\ ht.reads[1].low < hashcode_low(ht.hashcode)
    /\ ht.reads[Len(ht.reads)].low > hashcode_low(ht.hashcode)
    /\ Len(ht.reads) <
          Len(HtBucketEntries(ht.tbl, HtBucketOf(ht.tbl.shift, ht.hashcode)))
    /\ ht.yields = <<>>

(***************************************************************************)
(* MethodTable (binary/headers/mt.rs).  A parsed MT is a record of the     *)
(* struct's fields, with `va` for view.va(); the interfaces list, which    *)
(* all clones of an MT share, is kept by the scanner under the MT's VA.    *)
(***************************************************************************)
\* 0x7C000000
ELEMENT_TYPE_MASK == 124 * Pow2(24)
ELEMENT_TYPE_SHIFT == 26
ElementType_Unknown == 0
ElementType_Class == 20
ElementType_Interface == 21
ElementType_ValueType == 16

ElementTypes == (0 .. 16) \cup {18} \cup (20 .. 27)

\* ElementType::try_from((flags & ELEMENT_TYPE_MASK) >> ELEMENT_TYPE_SHIFT)
\*     .unwrap_or(ElementType::Unknown)
element_type_of(flags) ==
    LET bits == Shr(BitAnd(flags, ELEMENT_TYPE_MASK), ELEMENT_TYPE_SHIFT)
    IN  IF bits \in ElementTypes THEN bits ELSE ElementType_Unknown

MtOk(mt) == [ok |-> TRUE, mt |-> mt]
MtErr(why) == [ok |-> FALSE, err |-> why]

\* BinaryReader::read_u16 / read_u32 / read_u64 on a View: n bytes, little endian
read_le(img, n, r) ==
    IF ~r.ok THEN [ok |-> FALSE, view |-> r.view]
    ELSE [ok |-> TRUE, view |-> r.view,
          val |-> IF n = 8 THEN LeValue64(img.file, r.fo) ELSE LeValue(img.file, r.fo, n)]
ReadLe(img, view, n) == With(View_read_exact(img, view, n), LAMBDA r : read_le(img, n, r))

\* reads of the given sizes made one after the other, `?` ending them at the
\* first that fails
RECURSIVE ReadFields(_, _, _, _)
RECURSIVE read_fields_after(_, _, _, _)
read_fields_after(img, sizes, vals, first) ==
    IF ~first.ok THEN [ok |-> FALSE]
    ELSE ReadFields(img, first.view, Tail(sizes), Append(vals, first.val))
ReadFields(img, view, sizes, vals) ==
    IF sizes = <<>> THEN [ok |-> TRUE, view |-> view, vals |-> vals]
    ELSE With(ReadLe(img, view, Head(sizes)),
              LAMBDA first : read_fields_after(img, sizes, vals, first))

\* mt.rs:38-43: flags, base_size, related_type, vtable_count, iface_count, hashcode
MtFieldSizes == <<4, 4, 8, 2, 2, 4>>

\* the i16 test alone
slot_count_rejected_when_negative(count) == count >= Pow2(15)

\* mt.rs:45, 49: (count as i16) < 0 || count >= 1000
slot_count_rejected(count) == count >= Pow2(15) \/ count >= 1000

\* mt.rs:63-91: the element type, its checks, and the MT built from the header
\* fields h and the slots read
parse_checked(view, h, slots) ==
    IF ~slots.ok THEN MtErr("read")
    ELSE IF element_type_of(h[1]) = ElementType_Interface /\ h[2] # 0
        THEN MtErr("unexpected non-zero interface base size")
    ELSE IF element_type_of(h[1]) = ElementType_Interface /\ h[3] # 0
        THEN MtErr("unexpected non-zero interface related type")
    ELSE IF element_type_of(h[1]) # ElementType_Interface /\ h[2] < 16
        THEN MtErr("unexpected base size")
    ELSE MtOk([va |-> View_va(view),
               flags |-> h[1],
               base_size |-> h[2],
               related_type_address |-> h[3],
               hashcode |-> h[6],
               element_type |-> element_type_of(h[1]),
               vtable_addresses |-> SubSeq(slots.vals, 1, h[4]),
               iface_addresses |-> SubSeq(slots.vals, h[4] + 1, h[4] + h[5]),
               related_type |-> None])

\* mt.rs:45-61: the slot counts are checked, then vtable_count and iface_count
\* u64 slots are read
parse_slots(img, view, header) ==
    IF ~header.ok THEN MtErr("read")
    ELSE IF slot_count_rejected(header.vals[4]) THEN MtErr("invalid vtable slot count")
    ELSE IF slot_count_rejected(header.vals[5]) THEN MtErr("invalid interface count")
    ELSE With(ReadFields(img, header.view,
                         [i \in 1 .. header.vals[4] + header.vals[5] |-> 8], <<>>),
              LAMBDA slots : parse_checked(view, header.vals, slots))

\* MethodTable::parse(view)
MethodTable_parse(img, view) ==
    With(ReadFields(img, view, MtFieldSizes, <<>>),
         LAMBDA header : parse_slots(img, view, header))

(***************************************************************************)
(* NativeAotBinary::find_object_mt (binary.rs).                            *)
(***************************************************************************)
CANDIDATE_DATA_SECTIONS == <<".rdata", ".pdata", ".data">>
ObjectBaseSize == 24
ObjectVtableLen == 3

\* a weaker test of a slot: its VA has an RVA in the image, in any section
slot_in_image(img, va) == va_to_rva(img, va).ok

\* binary.rs:236-247: the slot's VA has an RVA that lies in a section named .text
section_is_text(s) == s.ok /\ s.val.name = ".text"
rva_in_text(img, rva) == rva.ok /\ With(by_rva(img, rva.val), LAMBDA s : section_is_text(s))
slot_in_text(img, va) == With(va_to_rva(img, va), LAMBDA rva : rva_in_text(img, rva))

\* binary.rs:215-248: the tests a parsed candidate passes to be the object MT
is_object_mt(img, mt) ==
    /\ mt.element_type = ElementType_Class
    /\ mt.base_size = ObjectBaseSize
    /\ mt.related_type_address = 0
    /\ Len(mt.vtable_addresses) = ObjectVtableLen
    /\ mt.iface_addresses = <<>>
    /\ \A i \in 1 .. Len(mt.vtable_addresses) : slot_in_text(img, mt.vtable_addresses[i])

\* binary.rs:205-253: the loop of scan_section from file offset `offset` on
RECURSIVE scan_section_from(_, _, _)
RECURSIVE scan_candidate(_, _, _, _)
scan_candidate(img, offset, end, mt) ==
    IF mt.ok /\ is_object_mt(img, mt.mt) THEN [ok |-> TRUE, found |-> Some(mt.mt)]
    ELSE scan_section_from(img, offset + 8, end)
scan_section_from(img, offset, end) ==
    IF offset >= end THEN [ok |-> TRUE, found |-> None]
    ELSE IF offset + 8 > Len(img.file) THEN [ok |-> FALSE, err |-> "panic"]
    ELSE With(MethodTable_parse(img, View_new(LeValue64(img.file, offset))),
              LAMBDA mt : scan_candidate(img, offset, end, mt))

\* binary.rs:198-254: the closure scan_section
scan_file_range(img, section) ==
    IF ~section.ok THEN [ok |-> FALSE, err |-> "Bounds"]
    ELSE scan_section_from(img, file_range_start(section.val),
                           file_range_end(section.val))
scan_section(img, name) ==
    With(by_name(img, name), LAMBDA section : scan_file_range(img, section))

\* binary.rs:256-262
RECURSIVE find_object_mt_in(_, _)
RECURSIVE find_object_mt_after(_, _, _)
find_object_mt_after(img, names, table) ==
    IF ~table.ok THEN MtErr(table.err)
    ELSE IF table.found.some THEN MtOk(table.found.val)
    ELSE find_object_mt_in(img, Tail(names))
find_object_mt_in(img, names) ==
    IF names = <<>> THEN MtErr("MethodTable not found or present in binary")
    ELSE With(scan_section(img, Head(names)),
              LAMBDA table : find_object_mt_after(img, names, table))

find_object_mt(img) == find_object_mt_in(img, CANDIDATE_DATA_SECTIONS)

\* another clone: of an MT as parse returns it, at no address
CloneOf_parsed(mt) == [va |-> 0, related_type |-> None]

(***************************************************************************)
(* NativeAotBinary::scan_method_tables (binary.rs).  The known table maps  *)
(* VAs to MTs; `interfaces` maps the VA of an MT to its shared interfaces  *)
(* list.  A clone of an MT (the value behind a related_type, an entry of   *)
(* an interfaces list) is recorded by the MT's VA and by whether, and to   *)
(* which VA, its own related_type was set when the clone was taken.        *)
(***************************************************************************)
CloneOf(mt) ==
    [va |-> mt.va,
     related_type |-> IF mt.related_type.some THEN Some(mt.related_type.val.va)
                      ELSE None]

\* binary.rs:90-107: the window over the candidate sections
RECURSIVE window_over(_, _, _, _)
RECURSIVE window_with(_, _, _, _, _)
window_with(img, names, min, max, sect) ==
    IF ~sect.ok THEN [ok |-> FALSE]
    ELSE window_over(img, Tail(names),
             IF sect.val.VirtualAddress < min THEN sect.val.VirtualAddress ELSE min,
             IF sect.val.VirtualAddress + sect.val.VirtualSize > max
             THEN sect.val.VirtualAddress + sect.val.VirtualSize ELSE max)
window_over(img, names, min, max) ==
    IF names = <<>> THEN [ok |-> TRUE, min |-> min, max |-> max]
    ELSE With(by_name(img, Head(names)),
              LAMBDA sect : window_with(img, names, min, max, sect))

\* binary.rs:110: (min..max).step_by(8)
window_addresses(min, max) ==
    IF min >= max THEN <<>>
    ELSE [k \in 1 .. ((max - min) + 7) \div 8 |-> min + 8 * (k - 1)]

\* binary.rs:137
outside_window(rva, min, max) == rva < min \/ rva >= max

\* binary.rs:164-182: the MTs of the interface slots, parsed or reused, and the
\* known table with those parsed here added
RECURSIVE link_interfaces(_, _, _, _)
RECURSIVE link_parsed(_, _, _, _, _)
link_parsed(img, tables, iface_vas, interfaces, interface) ==
    IF ~interface.ok THEN link_interfaces(img, tables, Tail(iface_vas), interfaces)
    ELSE link_interfaces(img, tables @@ (Head(iface_vas) :> interface.mt),
                         Tail(iface_vas), Append(interfaces, CloneOf(interface.mt)))
link_interfaces(img, tables, iface_vas, interfaces) ==
    IF iface_vas = <<>> THEN [tables |-> tables, interfaces |-> interfaces]
    ELSE IF Head(iface_vas) = 0
        THEN link_interfaces(img, tables, Tail(iface_vas), interfaces)
    ELSE IF Head(iface_vas) \in DOMAIN tables
        THEN link_interfaces(img, tables, Tail(iface_vas),
                             Append(interfaces, CloneOf(tables[Head(iface_vas)])))
    ELSE With(MethodTable_parse(img, View_new(Head(iface_vas))),
              LAMBDA interface : link_parsed(img, tables, iface_vas, interfaces, interface))

InterfacesOf(interfaces, va) == IF va \in DOMAIN interfaces THEN interfaces[va] ELSE <<>>

\* binary.rs:184-186: the interfaces found are appended to the list of the MT
\* at the base-type VA
crawl_extend(st, base_type_va, linked) ==
    [st EXCEPT
        !.tables = linked.tables,
        !.interfaces =
            [v \in DOMAIN st.interfaces \cup {base_type_va} |->
                IF v = base_type_va
                THEN InterfacesOf(st.interfaces, v) \o linked.interfaces
                ELSE st.interfaces[v]]]

\* another place for the interfaces found: the list of the entry itself
crawl_link_own(img, st, va, base_type_va, mt) ==
    With(link_interfaces(img,
            [v \in DOMAIN st.tables \cup {va} |-> IF v = va THEN mt ELSE st.tables[v]],
            mt.iface_addresses, <<>>),
         LAMBDA linked : crawl_extend(st, va, linked))

\* binary.rs:158-182: the entry's related_type is set, its interface slots linked
crawl_link(img, st, va, base_type_va, mt) ==
    With(link_interfaces(img,
            [v \in DOMAIN st.tables \cup {va} |-> IF v = va THEN mt ELSE st.tables[v]],
            mt.iface_addresses, <<>>),
         LAMBDA linked : crawl_extend(st, base_type_va, linked))

\* binary.rs:148-159: the entry at va, parsed when vacant
crawl_entry(img, st, va, base_type_va, related_type, parsed) ==
    IF ~parsed.ok THEN st
    ELSE With([parsed.mt EXCEPT !.related_type = Some(related_type)],
              LAMBDA mt : crawl_link(img, st, va, base_type_va, mt))

\* binary.rs:133-157
crawl_known(img, st, min, max, ptr, va, base_type_va, rva) ==
    IF ~rva.ok THEN st
    ELSE IF outside_window(rva.val, min, max) THEN st
    ELSE IF base_type_va \notin DOMAIN st.tables
        THEN [st EXCEPT !.unmatched = Append(@, ptr)]
    ELSE With(IF va \in DOMAIN st.tables THEN MtOk(st.tables[va])
              ELSE MethodTable_parse(img, View_new(va)),
              LAMBDA parsed : crawl_entry(img, st, va, base_type_va,
                                          CloneOf(st.tables[base_type_va]), parsed))

\* binary.rs:128-133
crawl_base_type(img, st, min, max, ptr, va, base_type_va) ==
    IF ~base_type_va.ok THEN st
    ELSE With(va_to_rva(img, base_type_va.val),
              LAMBDA rva : crawl_known(img, st, min, max, ptr, va, base_type_va.val, rva))

\* binary.rs:119-128
crawl_candidate(img, st, min, max, ptr, va) ==
    IF ~va.ok THEN st
    ELSE With(ReadLe(img, [base |-> va.val, offset |-> 8], 8),
              LAMBDA base_type_va : crawl_base_type(img, st, min, max, ptr, va.val,
                                                    base_type_va))

\* another body: once an address has left the agenda in a round, the rest of the
\* round's addresses are put off to the next
crawl_visit_one_a_round(img, st, min, max, ptr) ==
    IF Len(st.unmatched) < st.i - 1 THEN [st EXCEPT !.unmatched = Append(@, ptr)]
    ELSE With(rva_to_va(img, ptr), LAMBDA va : crawl_candidate(img, st, min, max, ptr, va))

\* binary.rs:118-187: the body of the crawl for one address of the agenda; st
\* holds tables, interfaces and unmatched
crawl_visit(img, st, min, max, ptr) ==
    With(rva_to_va(img, ptr), LAMBDA va : crawl_candidate(img, st, min, max, ptr, va))

\* two other stop tests: after the first round whatever it found, and never
crawl_stops_at_once(unmatched, agenda) == TRUE
crawl_stops_never(unmatched, agenda) == FALSE

\* binary.rs:189: the crawl stops when the next-round list is not shorter
crawl_stops(unmatched, agenda) == Len(unmatched) >= Len(agenda)

(***************************************************************************)
(* The images the scanner's checks run on.  An image is described by the   *)
(* order of its sections in the address space and in the file, by what     *)
(* each data section holds (method tables, pointer words, zero words), and *)
(* by the method tables: element type, base size, related type, vtable     *)
(* slots (targets in .text, numbered by word; -1 for a VA outside .text,   *)
(* -2 for VA 0), interface slots, hashcode.  ScImage lays the description  *)
(* out as the bytes and section headers of a PE: the file starts with      *)
(* ScHeaderWords words of headers and the first section sits at RVA        *)
(* 8 * ScFirstRvaWords, so file offsets, RVAs and VAs all differ.          *)
(***************************************************************************)
ScImageBase == 16 * 256
ScHeaderWords == 2
ScFirstRvaWords == 8
ScTextWords == 4
ScPadWords == 1

ScItem(k, ref) == [k |-> k, ref |-> ref]
ScMt(etype, base_size, related, vtable, ifaces, hashcode) ==
    [etype |-> etype, base_size |-> base_size, related |-> related,
     vtable |-> vtable, ifaces |-> ifaces, hashcode |-> hashcode]

ScMtSize(d) == (24 + 8 * Len(d.vtable)) + 8 * Len(d.ifaces)
ScItemSize(spec, item) == IF item.k = "mt" THEN ScMtSize(spec.mts[item.ref]) ELSE 8

RECURSIVE ScItemsSize(_, _)
ScItemsSize(spec, items) ==
    IF items = <<>> THEN 0
    ELSE ScItemSize(spec, Head(items)) + ScItemsSize(spec, Tail(items))

ScSectionSize(spec, name) ==
    IF name = ".text" THEN 8 * ScTextWords ELSE ScItemsSize(spec, spec.content[name])

RECURSIVE ScRvaIn(_, _, _, _)
ScRvaIn(spec, name, order, at) ==
    IF order = <<>> \/ Head(order) = name THEN at
    ELSE ScRvaIn(spec, name, Tail(order), at + ScSectionSize(spec, Head(order)))

ScSectionRva(spec, name) == ScRvaIn(spec, name, spec.order, 8 * ScFirstRvaWords)
ScImageEnd(spec) == ScRvaIn(spec, "", spec.order, 8 * ScFirstRvaWords)
ScSectionFileOffset(spec, name) ==
    8 * ScHeaderWords + (ScSectionRva(spec, name) - 8 * ScFirstRvaWords)

ScDataSections(spec) == {spec.order[i] : i \in 1 .. Len(spec.order)} \ {".text"}

\* the VA the method table `mt` of the description is laid out at
ScMtVa(spec, mt) ==
    LET name == CHOOSE s \in ScDataSections(spec) :
                    \E i \in 1 .. Len(spec.content[s]) : spec.content[s][i] = ScItem("mt", mt)
        i == CHOOSE i \in 1 .. Len(spec.content[name]) :
                    spec.content[name][i] = ScItem("mt", mt)
    IN  ScImageBase + ScSectionRva(spec, name)
            + ScItemsSize(spec, SubSeq(spec.content[name], 1, i - 1))

ScSlotVa(spec, target) ==
    IF target >= 0 THEN ScImageBase + ScSectionRva(spec, ".text") + 8 * target
    ELSE IF target = -1 THEN ScImageBase + 8 * ScFirstRvaWords + 8 * ScTextWords
    ELSE 0

ScRefVa(spec, self, ref) ==
    IF ref = "none" THEN 0
    ELSE IF ref = "self" THEN ScMtVa(spec, self)
    ELSE ScMtVa(spec, ref)

ScMtBytes(spec, mt) ==
    LET d == spec.mts[mt]
    IN  LeBytes(Shl(d.etype, ELEMENT_TYPE_SHIFT), 4) \o LeBytes(d.base_size, 4)
            \o LeBytes(ScRefVa(spec, mt, d.related), 8)
            \o LeBytes(Len(d.vtable), 2) \o LeBytes(Len(d.ifaces), 2)
            \o LeBytes(d.hashcode, 4)
            \o Flatten([i \in 1 .. Len(d.vtable) |-> LeBytes(ScSlotVa(spec, d.vtable[i]), 8)])
            \o Flatten([i \in 1 .. Len(d.ifaces) |->
                           LeBytes(ScRefVa(spec, mt, d.ifaces[i]), 8)])

ScItemBytes(spec, item) ==
    IF item.k = "mt" THEN ScMtBytes(spec, item.ref)
    ELSE IF item.k = "ptr" THEN LeBytes(ScMtVa(spec, item.ref), 8)
    ELSE Zeros(8)

ScSectionBytes(spec, name) ==
    IF name = ".text" THEN Zeros(8 * ScTextWords)
    ELSE Flatten([i \in 1 .. Len(spec.content[name]) |->
                     ScItemBytes(spec, spec.content[name][i])])

ScImage(spec) ==
    [ImageBase |-> ScImageBase,
     SizeOfImage |-> ScImageEnd(spec),
     sections |-> [i \in 1 .. Len(spec.order) |->
                      [name |-> spec.order[i],
                       VirtualAddress |-> ScSectionRva(spec, spec.order[i]),
                       VirtualSize |-> ScSectionSize(spec, spec.order[i]),
                       PointerToRawData |-> ScSectionFileOffset(spec, spec.order[i]),
                       SizeOfRawData |-> ScSectionSize(spec, spec.order[i])]],
     file |-> Zeros(8 * ScHeaderWords)
                \o Flatten([i \in 1 .. Len(spec.order) |->
                               ScSectionBytes(spec, spec.order[i])])]

ScSpec(kind, order, content, mts) ==
    [kind |-> kind, order |-> order, content |-> content, mts |-> mts]

\* .text below the data sections, or inside the window between them with .data
\* at the lowest addresses
ScTextBelow == <<".text", ".rdata", ".pdata", ".data">>
ScTextInside == <<".data", ".text", ".pdata", ".rdata">>

ScPad == [i \in 1 .. ScPadWords |-> ScItem("zero", "")]
ScMtItems(names) == [i \in 1 .. Len(names) |-> ScItem("mt", names[i])]
ScPtrItems(names) == [i \in 1 .. Len(names) |-> ScItem("ptr", names[i])]
ScContent(rdata, pdata, data) ==
    [name \in {".rdata", ".pdata", ".data"} |->
        IF name = ".rdata" THEN rdata ELSE IF name = ".pdata" THEN pdata ELSE data]

\* the method tables in the address order p, the first i of them in .rdata, the
\* next j - i in .pdata and the rest in .data
ScSplitContent(p, i, j) ==
    ScContent(ScPad \o ScMtItems(SubSeq(p, 1, i)),
              ScPad \o ScMtItems(SubSeq(p, i + 1, j)),
              ScPad \o ScMtItems(SubSeq(p, j + 1, Len(p))))

ScPerms(S) ==
    {p \in [1 .. Cardinality(S) -> S] :
        \A i, j \in 1 .. Cardinality(S) : i # j => p[i] # p[j]}

\* n method tables laid out: all in .rdata with .text below; spread over the
\* three sections, or all in .data, with .text inside the window
ScLayoutsOf(n) ==
    { [order |-> ScTextBelow, split |-> <<n, n>>],
      [order |-> ScTextInside, split |-> <<n \div 2, (n + 1) \div 2>>],
      [order |-> ScTextInside, split |-> <<0, 0>>] }

ScObject(hashcode) ==
    ScMt(ElementType_Class, ObjectBaseSize, "none", <<0, 1, 2>>, <<>>, hashcode)

\* Root <- A <- B <- C, and the interface I implemented by B
ScChainMts ==
    [mt \in {"Root", "A", "B", "C", "I"} |->
        IF mt = "Root" THEN ScObject(1)
        ELSE IF mt = "A"
            THEN ScMt(ElementType_Class, ObjectBaseSize + 8, "Root", <<3>>, <<>>, 2)
        ELSE IF mt = "B"
            THEN ScMt(ElementType_Class, ObjectBaseSize + 8, "A", <<>>, <<"I">>, 3)
        ELSE IF mt = "C"
            THEN ScMt(ElementType_Class, ObjectBaseSize + 16, "B", <<>>, <<>>, 4)
        ELSE ScMt(ElementType_Interface, 0, "none", <<>>, <<>>, 5)]

\* Root and one subtype
ScTwoLevelMts ==
    [mt \in {"Root", "S"} |->
        IF mt = "Root" THEN ScObject(1)
        ELSE ScMt(ElementType_Class, ObjectBaseSize + 8, "Root", <<>>, <<>>, 2)]

ScGraphSpecs(kind, mts) ==
    {ScSpec(kind, l.order, ScSplitContent(p, l.split[1], l.split[2]), mts) :
        p \in ScPerms(DOMAIN mts), l \in ScLayoutsOf(Cardinality(DOMAIN mts))}

\* Root <- P <- X and Root <- Y: X names in its interface slots I, nothing
\* (VA 0), a record that does not parse, J, and I again; Y names J
ScIfaceMts ==
    [mt \in {"Root", "P", "X", "Y", "I", "J", "bad"} |->
        IF mt = "Root" THEN ScObject(1)
        ELSE IF mt = "P"
            THEN ScMt(ElementType_Class, ObjectBaseSize + 8, "Root", <<3>>, <<>>, 2)
        ELSE IF mt = "X"
            THEN ScMt(ElementType_Class, ObjectBaseSize + 8, "P", <<>>,
                      <<"I", "none", "bad", "J", "I">>, 3)
        ELSE IF mt = "Y"
            THEN ScMt(ElementType_Class, ObjectBaseSize + 8, "Root", <<>>, <<"J">>, 4)
        ELSE IF mt = "bad" THEN ScMt(ElementType_Class, 8, "none", <<>>, <<>>, 5)
        ELSE ScMt(ElementType_Interface, 0, "none", <<>>, <<>>, 6)]

\* address orders of those: Y before or after X, bases before or after subtypes
ScIfaceOrders ==
    { <<"Root", "P", "X", "Y", "I", "J", "bad">>,
      <<"Root", "Y", "P", "X", "bad", "J", "I">>,
      <<"Root", "X", "I", "Y", "P", "J", "bad">>,
      <<"Root", "bad", "J", "I", "Y", "X", "P">> }

\* spread over the three sections, with .text below them or between them
ScIfaceLayouts ==
    { [order |-> ScTextBelow, split |-> <<2, 4>>],
      [order |-> ScTextInside, split |-> <<3, 5>>] }

ScIfaceSpecs ==
    {ScSpec("ifaces", l.order, ScSplitContent(p, l.split[1], l.split[2]), ScIfaceMts) :
        p \in ScIfaceOrders, l \in ScIfaceLayouts}

\* Records that look like the object MT: two that are, and one for each way of
\* missing a test of find_object_mt or of MethodTable::parse.
ScRootLikeMts ==
    [mt \in {"ok1", "ok2", "bs", "rel", "vt2", "vt4", "if1", "text", "null",
             "vtype", "iface", "small"} |->
        IF mt = "ok1" THEN ScObject(1)
        ELSE IF mt = "ok2" THEN ScObject(2)
        ELSE IF mt = "bs"
            THEN ScMt(ElementType_Class, ObjectBaseSize + 8, "none", <<0, 1, 2>>, <<>>, 3)
        ELSE IF mt = "rel"
            THEN ScMt(ElementType_Class, ObjectBaseSize, "self", <<0, 1, 2>>, <<>>, 4)
        ELSE IF mt = "vt2"
            THEN ScMt(ElementType_Class, ObjectBaseSize, "none", <<0, 1>>, <<>>, 5)
        ELSE IF mt = "vt4"
            THEN ScMt(ElementType_Class, ObjectBaseSize, "none", <<0, 1, 2, 3>>, <<>>, 6)
        ELSE IF mt = "if1"
            THEN ScMt(ElementType_Class, ObjectBaseSize, "none", <<0, 1, 2>>, <<"self">>, 7)
        ELSE IF mt = "text"
            THEN ScMt(ElementType_Class, ObjectBaseSize, "none", <<0, -1, 2>>, <<>>, 8)
        ELSE IF mt = "null"
            THEN ScMt(ElementType_Class, ObjectBaseSize, "none", <<0, 1, -2>>, <<>>, 9)
        ELSE IF mt = "vtype"
            THEN ScMt(ElementType_ValueType, ObjectBaseSize, "none", <<0, 1, 2>>, <<>>, 10)
        ELSE IF mt = "iface"
            THEN ScMt(ElementType_Interface, 0, "none", <<0, 1, 2>>, <<>>, 11)
        ELSE ScMt(ElementType_Class, 8, "none", <<0, 1, 2>>, <<>>, 12)]

\* two of those records in .data and a pointer word to each: both pointers in
\* .rdata; one in .pdata and one in .data; or the first in .data, at the lowest
\* addresses of the image, and the second in .rdata
ScRootLikePairs ==
    {vw \in (DOMAIN ScRootLikeMts) \X (DOMAIN ScRootLikeMts) : vw[1] # vw[2]}

ScFinderSpecs ==
    {ScSpec("finder", ScTextBelow,
            ScContent(ScPtrItems(vw), ScPad, ScPad \o ScMtItems(vw)),
            ScRootLikeMts) : vw \in ScRootLikePairs}
    \cup
    {ScSpec("finder", ScTextBelow,
            ScContent(ScPad, ScPtrItems(<<vw[1]>>),
                      ScPtrItems(<<vw[2]>>) \o ScMtItems(vw)),
            ScRootLikeMts) : vw \in ScRootLikePairs}
    \cup
    {ScSpec("finder", ScTextInside,
            ScContent(ScPtrItems(<<vw[2]>>), ScPad,
                      ScPtrItems(<<vw[1]>>) \o ScMtItems(vw)),
            ScRootLikeMts) : vw \in ScRootLikePairs}

\* one candidate section holds the object MT and a pointer to it, and one of the
\* other two is not in the image
ScMissingSpecs ==
    {ScSpec("missing", order,
            [name \in {".rdata", ".pdata", ".data"} |->
                IF name = holder THEN ScPtrItems(<<"ok1">>) \o ScMtItems(<<"ok1">>)
                ELSE ScPad],
            ScRootLikeMts) :
        holder \in {".rdata", ".pdata", ".data"},
        order \in { <<".text", ".rdata", ".pdata">>, <<".text", ".rdata", ".data">>,
                    <<".text", ".pdata", ".data">> }}

ScSpecs ==
    ScGraphSpecs("chain", ScChainMts) \cup ScGraphSpecs("two", ScTwoLevelMts)
        \cup ScIfaceSpecs \cup ScFinderSpecs
        \cup {s \in ScMissingSpecs :
                \E name \in ScDataSections(s) : s.content[name] # ScPad}

\* the crawl's termination is checked on the images without interface slots
ScFairSpecs == ScSpecs \ ScIfaceSpecs

ScanInitOn(specs) ==
    /\ \E spec \in specs :
        sc = [pc |-> "start", spec |-> spec, img |-> ScImage(spec),
              object_table |-> MtErr("not called"),
              tables |-> <<>>, interfaces |-> <<>>,
              min |-> 0, max |-> 0, agenda |-> <<>>, unmatched |-> <<>>, i |-> 0,
              shorter |-> 0]
    /\ cdc = CodecIdle /\ rt = RtIdle /\ ht = HtIdle /\ hd = HdIdle /\ tg = TgIdle /\ ld = LdIdle /\ md = MdIdle /\ ida = IdaIdle
ScanInit == ScanInitOn(ScSpecs)
ScanFairInit == ScanInitOn(ScFairSpecs)

\* binary.rs:87-88: find_object_mt, and the known table seeded with its result
FindObjectMt ==
    /\ sc.pc = "start"
    /\ sc' = With(find_object_mt(sc.img), LAMBDA object_table :
                 IF ~object_table.ok
                 THEN [sc EXCEPT !.pc = "failed", !.object_table = object_table]
                 ELSE [sc EXCEPT !.pc = "window", !.object_table = object_table,
                                 !.tables = (object_table.mt.va :> object_table.mt)])

\* binary.rs:90-116: the window, the addresses to crawl, and the first round's
\* agenda
CrawlStart ==
    /\ sc.pc = "window"
    /\ sc' = With(window_over(sc.img, CANDIDATE_DATA_SECTIONS, VaTop, 0), LAMBDA window :
                 IF ~window.ok THEN [sc EXCEPT !.pc = "failed"]
                 ELSE [sc EXCEPT !.pc = "crawl",
                                 !.min = window.min, !.max = window.max,
                                 !.agenda = window_addresses(window.min, window.max),
                                 !.unmatched = <<>>, !.i = 1])

\* binary.rs:118-187: the next address of the agenda
CrawlVisit ==
    /\ sc.pc = "crawl" /\ sc.i <= Len(sc.agenda)
    /\ sc' = [crawl_visit(sc.img, sc, sc.min, sc.max, sc.agenda[sc.i]) EXCEPT
                 !.i = sc.i + 1]

\* the rounds so far whose next-round list came out shorter than the agenda
round_counted(shorter, unmatched, agenda) ==
    IF Len(unmatched) < Len(agenda) THEN shorter + 1 ELSE shorter

\* binary.rs:189-194 and 113-116: the end of a round: return the known tables,
\* or start the next round on the unmatched addresses; `shorter` counts the
\* rounds that left fewer addresses than they were given
CrawlRoundEnd ==
    /\ sc.pc = "crawl" /\ sc.i > Len(sc.agenda)
    /\ sc' = IF crawl_stops(sc.unmatched, sc.agenda)
             THEN [sc EXCEPT !.pc = "done",
                             !.shorter = round_counted(@, sc.unmatched, sc.agenda)]
             ELSE [sc EXCEPT !.agenda = sc.unmatched, !.unmatched = <<>>, !.i = 1,
                             !.shorter = round_counted(@, sc.unmatched, sc.agenda)]

ScanNext ==
    /\ \/ FindObjectMt
       \/ CrawlStart
       \/ CrawlVisit
       \/ CrawlRoundEnd
    /\ UNCHANGED <<cdc, rt, ht, hd, tg, ld, md, ida>>

SpecScan == ScanInit /\ [][ScanNext]_vars

\* scan_method_tables is one sequential call: it always takes its next step
SpecScanFair == ScanFairInit /\ [][ScanNext]_vars /\ WF_vars(ScanNext)

\* C1: the next-round list of a round is a sub-list of the part of the agenda
\* visited so far; at the end of a round the crawl goes on, with the next-round
\* list as its agenda, exactly when that list is strictly shorter than the
\* agenda, and returns otherwise; a crawl that has begun does not fail; and
\* every scan_method_tables call comes to its end.
C1_CrawlTerminates ==
    /\ [](sc.pc = "crawl" => IsSubSeq(sc.unmatched, SubSeq(sc.agenda, 1, sc.i - 1)))
    /\ [][sc.pc = "crawl" =>
            /\ sc'.pc \in {"crawl", "done"}
            /\ sc.i > Len(sc.agenda) =>
                  IF Len(sc.unmatched) < Len(sc.agenda)
                  THEN sc'.pc = "crawl" /\ sc'.agenda = sc.unmatched /\ sc'.i = 1
                  ELSE sc'.pc = "done"]_vars
    /\ <>(sc.pc \in {"done", "failed"})

\* a scan whose root was found, that went on for more than one round and
\* returned with addresses still unmatched
C1_Witness ==
    /\ sc.pc = "done" /\ sc.object_table.ok
    /\ Len(sc.agenda) < Len(window_addresses(sc.min, sc.max))
    /\ sc.unmatched # <<>>
    /\ Len(sc.unmatched) = Len(sc.agenda)

\* the description holds a root, classes whose related types chain to the root,
\* and interfaces that a class names in an interface slot
RECURSIVE C2_ChainsToRoot(_, _, _)
C2_ChainsToRoot(spec, mt, fuel) ==
    /\ fuel > 0
    /\ spec.mts[mt].related \in DOMAIN spec.mts
    /\ \/ spec.mts[mt].related = "Root"
       \/ C2_ChainsToRoot(spec, spec.mts[mt].related, fuel - 1)

C2_WellChained(spec) ==
    /\ "Root" \in DOMAIN spec.mts
    /\ ScDataSections(spec) = {".rdata", ".pdata", ".data"}
    /\ \A mt \in DOMAIN spec.mts :
          IF spec.mts[mt].etype = ElementType_Interface
          THEN \E c \in DOMAIN spec.mts :
                  /\ spec.mts[c].etype = ElementType_Class
                  /\ \E i \in 1 .. Len(spec.mts[c].ifaces) : spec.mts[c].ifaces[i] = mt
          ELSE IF mt = "Root"
              THEN /\ spec.mts[mt].etype = ElementType_Class
                   /\ spec.mts[mt].base_size = 24
                   /\ spec.mts[mt].related = "none"
                   /\ Len(spec.mts[mt].vtable) = 3 /\ spec.mts[mt].ifaces = <<>>
                   /\ \A i \in 1 .. 3 : spec.mts[mt].vtable[i] \in 0 .. ScTextWords - 1
              ELSE /\ spec.mts[mt].etype = ElementType_Class
                   /\ C2_ChainsToRoot(spec, mt, Cardinality(DOMAIN spec.mts))

C2_MtVas(spec) == {ScMtVa(spec, mt) : mt \in DOMAIN spec.mts}

\* no address of the window other than an MT's has the VA of an MT in its +8
\* field and the bytes of an MT
C2_NoStrayMt(spec, img, addresses) ==
    \A k \in 1 .. Len(addresses) :
        LET va == img.ImageBase + addresses[k]
            base == ReadLe(img, [base |-> va, offset |-> 8], 8)
        IN  (va \notin C2_MtVas(spec) /\ base.ok /\ base.val \in C2_MtVas(spec))
                => ~MethodTable_parse(img, View_new(va)).ok

\* C2: on an image that holds a root, classes chained to it and the interfaces
\* they name, in whatever address order and sections, scan_method_tables returns
\* one MT at the VA of each of them and no other, and each class's related_type
\* is the MT at the VA of its base type.
C2_ScanReturnsTheGraph ==
    (/\ sc.pc = "done"
     /\ C2_WellChained(sc.spec)
     /\ C2_NoStrayMt(sc.spec, sc.img, window_addresses(sc.min, sc.max))) =>
        /\ DOMAIN sc.tables = C2_MtVas(sc.spec)
        /\ \A mt \in DOMAIN sc.spec.mts :
              LET found == sc.tables[ScMtVa(sc.spec, mt)]
              IN  /\ found.va = ScMtVa(sc.spec, mt)
                  /\ found.hashcode = sc.spec.mts[mt].hashcode
                  /\ IF sc.spec.mts[mt].related = "none"
                     THEN ~found.related_type.some
                     ELSE /\ found.related_type.some
                          /\ found.related_type.val.va =
                                ScMtVa(sc.spec, sc.spec.mts[mt].related)

\* the chain with every class at a lower address than its base type, so that
\* each round of the crawl finds one class more
C2_Witness ==
    /\ sc.pc = "done" /\ sc.spec.kind = "chain" /\ C2_WellChained(sc.spec)
    /\ ScMtVa(sc.spec, "C") < ScMtVa(sc.spec, "B")
    /\ ScMtVa(sc.spec, "B") < ScMtVa(sc.spec, "A")
    /\ ScMtVa(sc.spec, "A") < ScMtVa(sc.spec, "Root")
    /\ Cardinality(DOMAIN sc.tables) = 5
    /\ sc.tables[ScMtVa(sc.spec, "B")].related_type = Some([va |-> ScMtVa(sc.spec, "A"),
                                                            related_type |-> Some(ScMtVa(sc.spec, "Root"))])

\* the MTs of the description that are in the image
C20_LaidOut ==
    {X \in DOMAIN sc.spec.mts :
        \E name \in ScDataSections(sc.spec) :
            \E i \in 1 .. Len(sc.spec.content[name]) :
                sc.spec.content[name][i] = ScItem("mt", X)}

\* the MT described as X sits at the address the crawl visits next, and the MT
\* at its base-type VA is known
C20_Accepts(X) ==
    /\ sc.pc = "crawl" /\ sc.i <= Len(sc.agenda)
    /\ sc.img.ImageBase + sc.agenda[sc.i] = ScMtVa(sc.spec, X)
    /\ sc.spec.mts[X].related # "none"
    /\ ScRefVa(sc.spec, X, sc.spec.mts[X].related) \in DOMAIN sc.tables
    /\ \/ ScMtVa(sc.spec, X) \in DOMAIN sc.tables
       \/ MethodTable_parse(sc.img, View_new(ScMtVa(sc.spec, X))).ok

\* is the VA of an interface slot of X one that is linked: not zero, and known
\* or parsing as an MT
C20_Linked(X, va) ==
    /\ va # 0
    /\ \/ va \in DOMAIN sc.tables \cup {ScMtVa(sc.spec, X)}
       \/ MethodTable_parse(sc.img, View_new(va)).ok

\* the VAs of the interface slots of X, in slot order, that are linked
RECURSIVE C20_LinkedVas(_, _)
C20_LinkedVas(X, slots) ==
    IF slots = <<>> THEN <<>>
    ELSE IF C20_Linked(X, ScRefVa(sc.spec, X, Head(slots)))
        THEN <<ScRefVa(sc.spec, X, Head(slots))>> \o C20_LinkedVas(X, Tail(slots))
    ELSE C20_LinkedVas(X, Tail(slots))

C20_VasOf(list) == [k \in 1 .. Len(list) |-> list[k].va]

\* C20: when the crawl accepts a candidate X whose base-type VA is that of a
\* known MT P, the interface VAs of X that are not zero and are known or parse,
\* in slot order, are appended to the interfaces list of P; the list of X (when
\* X is not P) and of every other MT is left as it was; and the known table now
\* holds X and each of those interfaces.
C20_InterfacesOnBase ==
    [][\A X \in C20_LaidOut :
          C20_Accepts(X) =>
              LET P == ScRefVa(sc.spec, X, sc.spec.mts[X].related)
                  linked == C20_LinkedVas(X, sc.spec.mts[X].ifaces)
              IN  /\ C20_VasOf(InterfacesOf(sc'.interfaces, P))
                        = C20_VasOf(InterfacesOf(sc.interfaces, P)) \o linked
                  /\ \A v \in (DOMAIN sc'.tables) \ {P} :
                        InterfacesOf(sc'.interfaces, v) = InterfacesOf(sc.interfaces, v)
                  /\ DOMAIN sc'.tables
                        = DOMAIN sc.tables \cup {ScMtVa(sc.spec, X)}
                            \cup {linked[k] : k \in 1 .. Len(linked)}]_vars

\* X, whose slots name I, VA 0, a record that does not parse, J and I, has been
\* accepted with Y accepted before it, so that J was known and I was not: I, J
\* and I are on the list of X's base P, after nothing, and X has no list
C20_Witness ==
    /\ sc.pc = "done" /\ sc.spec.kind = "ifaces"
    /\ ScMtVa(sc.spec, "Y") < ScMtVa(sc.spec, "X")
    /\ ScMtVa(sc.spec, "P") < ScMtVa(sc.spec, "X")
    /\ C20_VasOf(InterfacesOf(sc.interfaces, ScMtVa(sc.spec, "P")))
          = <<ScMtVa(sc.spec, "I"), ScMtVa(sc.spec, "J"), ScMtVa(sc.spec, "I")>>
    /\ C20_VasOf(InterfacesOf(sc.interfaces, ScMtVa(sc.spec, "Root")))
          = <<ScMtVa(sc.spec, "J")>>
    /\ InterfacesOf(sc.interfaces, ScMtVa(sc.spec, "X")) = <<>>
    /\ ScMtVa(sc.spec, "bad") \notin DOMAIN sc.tables
    /\ {ScMtVa(sc.spec, "I"), ScMtVa(sc.spec, "J")} \subseteq DOMAIN sc.tables

\* the u64 words of the candidate sections `names` that are in the image, in
\* the order of `names` and by ascending file offset inside a section
C3_Words(img, s) ==
    [k \in 1 .. s.SizeOfRawData \div 8 |-> LeValue64(img.file, s.PointerToRawData + 8 * (k - 1))]
C3_Candidates(img, names) ==
    Flatten([i \in 1 .. Len(names) |->
                IF by_name(img, names[i]).ok THEN C3_Words(img, by_name(img, names[i]).val)
                ELSE <<>>])

\* the tests of the root, on the MT parsed at va
C3_InText(img, va) ==
    \E i \in 1 .. Len(img.sections) :
        /\ img.sections[i].name = ".text"
        /\ va - img.ImageBase >= img.sections[i].VirtualAddress
        /\ va - img.ImageBase < img.sections[i].VirtualAddress + img.sections[i].VirtualSize
C3_Accepts(img, va) ==
    LET parsed == MethodTable_parse(img, View_new(va))
    IN  /\ parsed.ok
        /\ parsed.mt.element_type = ElementType_Class
        /\ parsed.mt.base_size = 24
        /\ parsed.mt.related_type_address = 0
        /\ Len(parsed.mt.vtable_addresses) = 3
        /\ Len(parsed.mt.iface_addresses) = 0
        /\ \A i \in 1 .. 3 : C3_InText(img, parsed.mt.vtable_addresses[i])

\* find_object_mt has returned the MT at the first word of cands that passes
\* the tests, or has failed when there is none
C3_ReturnsFirst(img, cands) ==
    LET good == {k \in 1 .. Len(cands) : C3_Accepts(img, cands[k])}
    IN  IF good = {} THEN ~sc.object_table.ok
        ELSE /\ sc.object_table.ok
             /\ sc.object_table.mt.va = cands[CHOOSE k \in good : \A j \in good : k <= j]
             /\ sc.object_table.mt.related_type = None

\* the candidate sections find_object_mt gets to: those before the first one
\* that the image lacks
C3_SectionsReached(img) ==
    LET lacking == {i \in 1 .. 3 : ~by_name(img, <<".rdata", ".pdata", ".data">>[i]).ok}
    IN  IF lacking = {} THEN <<".rdata", ".pdata", ".data">>
        ELSE SubSeq(<<".rdata", ".pdata", ".data">>, 1,
                    (CHOOSE i \in lacking : \A j \in lacking : i <= j) - 1)

\* C3: find_object_mt returns the first candidate, in the order .rdata, .pdata,
\* .data and by ascending offset, that parses as an MT with element type Class,
\* base size 0x18, related-type VA 0, 3 vtable slots all in .text and no
\* interface slot, among the candidates of the sections that come before the
\* first candidate section missing from the image; it fails when none of those
\* passes.
C3_FindObjectMt ==
    sc.pc \in {"window", "failed"} =>
        C3_ReturnsFirst(sc.img, C3_Candidates(sc.img, C3_SectionsReached(sc.img)))

\* the same over the candidates of all the candidate sections the image has
C3_AsStated ==
    sc.pc \in {"window", "failed"} =>
        C3_ReturnsFirst(sc.img, C3_Candidates(sc.img, <<".rdata", ".pdata", ".data">>))

\* the root was returned for a candidate that comes after one that parses as an
\* MT and misses a test
C3_Witness ==
    /\ sc.pc = "window" /\ sc.object_table.ok
    /\ LET cands == C3_Candidates(sc.img, <<".rdata", ".pdata", ".data">>)
       IN  \E k \in 1 .. Len(cands) :
              /\ cands[k] = sc.object_table.mt.va
              /\ \E j \in 1 .. k - 1 :
                    /\ MethodTable_parse(sc.img, View_new(cands[j])).ok
                    /\ ~C3_Accepts(sc.img, cands[j])

\* C4: for every u32 v, decode_unsigned of the encoding of v returns v, and the
\* encoding is get_unsigned_encoding_size(v) bytes long, which is 1, 2, 3, 4 or 5
\* for v < 2^7, < 2^14, < 2^21, < 2^28, or larger.
C4_UnsignedRoundTrip ==
    (cdc.done /\ cdc.op = "decode_unsigned" /\ cdc.kind = "u32" /\ cdc.how = "whole") =>
        /\ cdc.res.ok
        /\ cdc.res.val = cdc.v
        /\ cdc.enc_len = get_unsigned_encoding_size(cdc.v)
        /\ cdc.enc_len = (IF cdc.v < Pow2(7) THEN 1
                          ELSE IF cdc.v < Pow2(14) THEN 2
                          ELSE IF cdc.v < Pow2(21) THEN 3
                          ELSE IF cdc.v < Pow2(28) THEN 4 ELSE 5)

\* a 3-byte and a 5-byte encoding have been decoded back to their values
C4_Witness ==
    /\ cdc.done /\ cdc.op = "decode_unsigned" /\ cdc.kind = "u32" /\ cdc.how = "whole"
    /\ cdc.offset = 1
    /\ cdc.v >= Pow2(28)
    /\ cdc.enc_len = 5
    /\ cdc.res.ok /\ cdc.res.val = cdc.v

\* C5: for every i32 v, negative values of the 2-, 3- and 4-byte forms included,
\* decode_signed of the signed encoding of v returns v.
C5_SignedRoundTrip ==
    (cdc.done /\ cdc.op = "decode_signed" /\ cdc.kind = "i32" /\ cdc.how = "whole") =>
        (cdc.res.ok /\ cdc.res.val = cdc.v)

\* C6: a decoder given an encoding cut short, or started at or past the end of
\* the slice, returns the BadImage error (it neither succeeds nor panics).
C6_TruncatedIsBadImage ==
    (cdc.done /\ cdc.how \in {"truncated", "past_end"}) =>
        (~cdc.res.ok /\ cdc.res.err = "BadImage")

(***************************************************************************)
(* Typed metadata handles (embedded_meta/handles.rs).  A raw u32 may have  *)
(* its top bit set, so the argument of from_value is kept as its two       *)
(* 16-bit halves; a handle, whose kind is at most 0x3f, is a number.       *)
(***************************************************************************)
U32(hi, lo) == [hi |-> hi, lo |-> lo]

\* value >> n for 16 <= n < 32, and value & mask for a mask below 2^31
U32Shr(value, n) == Shr(value.hi, n - 16)
U32And(value, mask) ==
    Shl(BitAnd(value.hi, Shr(mask, 16)), 16) + BitAnd(value.lo, mask % Pow2(16))

HandleType_Null == 0
HandleType_TypeVariableSignature == 63
HandleType_Invalid == 255

\* enum HandleType, TryFromPrimitive: the kinds 0x0 .. 0x3f and 0xff
HandleTypes == (HandleType_Null .. HandleType_TypeVariableSignature) \cup {HandleType_Invalid}
HandleType_try_from(byte) ==
    IF byte \in HandleTypes THEN [ok |-> TRUE, val |-> byte] ELSE [ok |-> FALSE]

\* the kinds that define_handle! is instantiated for (handles.rs:211-233)
DefinedHandleTypes == {2, 26, 33, 34, 35, 36, 38, 40, 43, 44, 47, 49, 51, 54, 56, 58, 59, 60, 62, 63}

HANDLE_OFFSET_MASK == Pow2(25) - 1
HANDLE_TYPE_SHIFT == 25

\* two other tests of the kind: any enumerated kind passes; Null does not
kind_accepted_any(handle_type, typ) == TRUE
kind_accepted_exact(handle_type, typ) == handle_type = typ

\* handles.rs:19: handle_type != HandleType::$typ && handle_type != HandleType::Null
\* rejects
kind_accepted(handle_type, typ) == handle_type = typ \/ handle_type = HandleType_Null

\* <$name as Handle>::from_value(value), for the handle type of kind typ
Handle_from_value(typ, value) ==
    LET handle_type == HandleType_try_from(U32Shr(value, HANDLE_TYPE_SHIFT) % 256)
    IN  IF ~handle_type.ok THEN [ok |-> FALSE, err |-> "InvalidMetaHandle"]
        ELSE IF ~kind_accepted(handle_type.val, typ)
            THEN [ok |-> FALSE, err |-> "InvalidMetaHandle"]
        ELSE [ok |-> TRUE,
              val |-> BitOr(U32And(value, HANDLE_OFFSET_MASK), Shl(typ, HANDLE_TYPE_SHIFT))]

Handle_to_value(handle) == handle
Handle_offset(handle) == BitAnd(handle, HANDLE_OFFSET_MASK)
Handle_is_nil(handle) == BitAnd(handle, HANDLE_OFFSET_MASK) = 0

\* The calls checked: every 7-bit kind in the top bits, over offsets at the ends
\* and inside the 25-bit range, for every handle type defined.
HdSpread == 1
HdOffsets ==
    (0 .. HdSpread) \cup ((Pow2(25) - 1 - HdSpread) .. (Pow2(25) - 1))
        \cup ((Pow2(16) - HdSpread) .. (Pow2(16) + HdSpread))

HdValue(kind, offset) == U32(kind * Pow2(9) + offset \div Pow2(16), offset % Pow2(16))

HdInit ==
    /\ \E typ \in DefinedHandleTypes, kind \in 0 .. Pow2(7) - 1, offset \in HdOffsets :
          hd = [pc |-> "call", typ |-> typ, kind |-> kind, offset |-> offset,
                value |-> HdValue(kind, offset), res |-> <<>>]
    /\ cdc = CodecIdle /\ rt = RtIdle /\ ht = HtIdle /\ sc = ScIdle /\ tg = TgIdle /\ ld = LdIdle /\ md = MdIdle /\ ida = IdaIdle

FromValue ==
    /\ hd.pc = "call"
    /\ hd' = [hd EXCEPT !.pc = "done", !.res = Handle_from_value(hd.typ, hd.value)]

HdNext ==
    /\ FromValue
    /\ UNCHANGED <<cdc, rt, ht, sc, tg, ld, md, ida>>

SpecHandle == HdInit /\ [][HdNext]_vars

\* C11: from_value of the handle type of kind K succeeds exactly when the top 7
\* bits of the value are K or Null, and fails with InvalidMetaHandle otherwise,
\* for other enumerated kinds and for kinds outside the enumeration alike; the
\* handle it returns has K in bits 25..31 and the low 25 bits of the value as
\* its offset, and is nil exactly when that offset is 0.
C11_FromValue ==
    hd.pc = "done" =>
        IF hd.kind \in {hd.typ, 0}
        THEN /\ hd.res.ok
             /\ Handle_to_value(hd.res.val) \div Pow2(25) = hd.typ
             /\ Handle_offset(hd.res.val) = hd.offset
             /\ (Handle_is_nil(hd.res.val) <=> hd.offset = 0)
        ELSE ~hd.res.ok /\ hd.res.err = "InvalidMetaHandle"

\* a value of kind Null with a non-zero offset was made a handle of another kind
C11_Witness ==
    /\ hd.pc = "done" /\ hd.kind = 0 /\ hd.typ # 0 /\ hd.offset = Pow2(25) - 1
    /\ hd.res.ok /\ hd.res.val = hd.typ * Pow2(25) + hd.offset

(***************************************************************************)
(* ReadyToRun section types (binary/headers/rtr.rs).  A section type is    *)
(* its variant's name, with the blob for ReflectionMapBlob and the number  *)
(* for Unknown.                                                            *)
(***************************************************************************)
\* enum ReflectionMapBlob by discriminant; Unknown, declared last without a
\* value, has the discriminant after ProxyTypeMap's
ReflectionMapBlobs ==
    (1 :> "TypeMap") @@ (2 :> "ArrayMap") @@ (3 :> "PointerTypeMap")
    @@ (4 :> "FunctionPointerTypeMap") @@ (6 :> "InvokeMap") @@ (7 :> "VirtualInvokeMap")
    @@ (8 :> "CommonFixupsTable") @@ (9 :> "FieldAccessMap") @@ (10 :> "CCtorContextMap")
    @@ (11 :> "ByRefTypeMap") @@ (13 :> "EmbeddedMetadata")
    @@ (15 :> "UnboxingAndInstantiatingStubMap") @@ (16 :> "StructMarshallingStubMap")
    @@ (17 :> "DelegateMarshallingStubMap") @@ (18 :> "GenericVirtualMethodTable")
    @@ (19 :> "InterfaceGenericVirtualMethodTable") @@ (21 :> "TypeTemplateMap")
    @@ (22 :> "GenericMethodsTemplateMap") @@ (24 :> "BlobIdResourceIndex")
    @@ (25 :> "BlobIdResourceData") @@ (26 :> "BlobIdStackTraceEmbeddedMetadata")
    @@ (27 :> "BlobIdStackTraceMethodRvaToTokenMapping")
    @@ (28 :> "BlobIdStackTraceLineNumbers") @@ (29 :> "BlobIdStackTraceDocuments")
    @@ (30 :> "NativeLayoutInfo") @@ (31 :> "NativeReferences")
    @@ (32 :> "GenericsHashtable") @@ (33 :> "NativeStatics")
    @@ (34 :> "StaticsInfoHashtable") @@ (35 :> "GenericMethodsHashtable")
    @@ (36 :> "ExactMethodInstantiationsHashtable") @@ (40 :> "ExternalTypeMap")
    @@ (41 :> "ProxyTypeMap") @@ (42 :> "Unknown")

\* another conversion: no number has a variant of its own
ReflectionMapBlob_from_none(num) == "Unknown"

\* <ReflectionMapBlob as From<u32>>::from (FromPrimitive, #[default] Unknown)
ReflectionMapBlob_from(num) ==
    IF num \in DOMAIN ReflectionMapBlobs THEN ReflectionMapBlobs[num] ELSE "Unknown"

\* the arms of from_u32 with a literal pattern
SectionTypeArms ==
    (100 :> "CompilerIdentifier") @@ (101 :> "ImportSections")
    @@ (102 :> "RuntimeFunctions") @@ (103 :> "MethodDefEntryPoints")
    @@ (104 :> "ExceptionInfo") @@ (105 :> "DebugInfo")
    @@ (106 :> "DelayLoadMethodCallThunks") @@ (108 :> "AvailableTypes")
    @@ (109 :> "InstanceMethodEntryPoints") @@ (110 :> "InliningInfo")
    @@ (111 :> "ProfileDataInfo") @@ (112 :> "ManifestMetadata")
    @@ (113 :> "AttributePresence") @@ (114 :> "InliningInfo2")
    @@ (115 :> "ComponentAssemblies") @@ (116 :> "OwnerCompositeExecutable")
    @@ (117 :> "PgoInstrumentationData") @@ (118 :> "ManifestAssemblyMvids")
    @@ (119 :> "CrossModuleInlineInfo") @@ (120 :> "HotColdMap")
    @@ (121 :> "MethodIsGenericMap") @@ (122 :> "EnclosingTypeMap")
    @@ (123 :> "TypeGenericInfoMap")
    @@ (200 :> "StringTable") @@ (201 :> "GCStaticRegion")
    @@ (202 :> "ThreadStaticRegion") @@ (204 :> "TypeManagerIndirection")
    @@ (205 :> "EagerCctor") @@ (206 :> "FrozenObjectRegion")
    @@ (207 :> "DehydratedData") @@ (208 :> "ThreadStaticOffsetRegion")
    @@ (212 :> "ImportAddressTables") @@ (213 :> "ModuleInitializerList")

SectionType(name) == [type |-> name]
SectionType_ReflectionMapBlob(blob) == [type |-> "ReflectionMapBlob", blob |-> blob]
SectionType_Unknown(num) == [type |-> "Unknown", num |-> num]

\* ReadyToRunSectionType::from_u32(num)
ReadyToRunSectionType_from_u32(num) ==
    IF num \in DOMAIN SectionTypeArms THEN SectionType(SectionTypeArms[num])
    ELSE IF num >= 300 /\ num <= 399
        THEN SectionType_ReflectionMapBlob(ReflectionMapBlob_from(num - 300))
    ELSE SectionType_Unknown(num)

\* The calls checked: every tag from 0 to past the blob range, and tags around
\* 2^16 and near the top of the modelled u32 range.
TgMaxTag == 450
TgSpread == 2
TgTags ==
    (0 .. TgMaxTag) \cup ((Pow2(16) - TgSpread) .. (Pow2(16) + 300 + TgSpread))
        \cup ((VaTop - 1 - TgSpread) .. (VaTop - 1))

TgInit ==
    /\ \E num \in TgTags : tg = [pc |-> "call", num |-> num, res |-> <<>>]
    /\ cdc = CodecIdle /\ rt = RtIdle /\ ht = HtIdle /\ sc = ScIdle /\ hd = HdIdle /\ ld = LdIdle /\ md = MdIdle /\ ida = IdaIdle

FromU32 ==
    /\ tg.pc = "call"
    /\ tg' = [tg EXCEPT !.pc = "done", !.res = ReadyToRunSectionType_from_u32(tg.num)]

TgNext ==
    /\ FromU32
    /\ UNCHANGED <<cdc, rt, ht, sc, hd, ld, md, ida>>

SpecTag == TgInit /\ [][TgNext]_vars

\* the tags of the claim
C12_CoreClrTags == (100 .. 123) \ {107}
C12_NativeAotTags == (200 .. 213) \ {203, 209, 210, 211}
C12_BlobIndices ==
    {1, 2, 3, 4, 6, 7, 8, 9, 10, 11, 13, 15, 16, 17, 18, 19, 21, 22} \cup (24 .. 36) \cup {40, 41}

\* the decoder's result for the tags of the claim, with `named` the indices
\* that have a variant of ReflectionMapBlob
C12_Decodes(named) ==
    tg.pc = "done" =>
        IF tg.num \in 300 .. 399
        THEN /\ tg.res.type = "ReflectionMapBlob"
             /\ tg.res.blob # "Unknown" <=> (tg.num - 300) \in named
        ELSE IF tg.num \in C12_CoreClrTags \cup C12_NativeAotTags
            THEN tg.res.type \notin {"ReflectionMapBlob", "Unknown"}
        ELSE tg.res = [type |-> "Unknown", num |-> tg.num]

\* C12: every tag 300 + i with i in {1, 2, 3, 4, 6, ..., 19, 21, 22, 24..36, 40,
\* 41} decodes to a named ReflectionMapBlob variant and every other tag in
\* 300..399, tag 300 included, to ReflectionMapBlob(Unknown); the enumerated
\* tags in 100..123 and 200..213 decode to their named section types; every
\* other tag t, the gaps 107, 203, 209, 210 and 211 included, to Unknown(t).
C12_SectionTags == C12_Decodes(C12_BlobIndices)

\* the same with index 0 among the named ones
C12_AsStated == C12_Decodes(C12_BlobIndices \cup {0})

\* tag 300 has been decoded, to the blob Unknown
C12_Witness ==
    /\ tg.pc = "done" /\ tg.num = 300
    /\ tg.res = [type |-> "ReflectionMapBlob", blob |-> "Unknown"]

\* each named tag decodes to a type of its own
C12_NamesDistinct ==
    /\ \A a, b \in DOMAIN SectionTypeArms : SectionTypeArms[a] = SectionTypeArms[b] => a = b
    /\ \A a, b \in DOMAIN ReflectionMapBlobs :
          ReflectionMapBlobs[a] = ReflectionMapBlobs[b] => a = b

(***************************************************************************)
(* ReadyToRunHeader::parse (binary/headers/rtr.rs) and                     *)
(* NativeAotBinary::load_pe (binary.rs).                                   *)
(***************************************************************************)
\* 0x00525452, "RTR\0"
RTR_SIGNATURE == (82 * Pow2(16) + 84 * Pow2(8)) + 82

RtrOk(rtr) == [ok |-> TRUE, rtr |-> rtr]
RtrErr(why) == [ok |-> FALSE, err |-> why]

\* another test of a signature: every value passes
Signature_try_from_any(value) == TRUE

\* Signature::try_from(value)
Signature_try_from(value) == value = RTR_SIGNATURE

\* rtr.rs:152: ensure!((number_of_sections as i16) >= 0 || number_of_sections < 1000)
section_count_ensured(number_of_sections) ==
    number_of_sections < Pow2(15) \/ number_of_sections < 1000

\* rtr.rs:209-212: section_type, flags, start, end
RtrSectionFieldSizes == <<4, 4, 8, 8>>

\* ReadyToRunSection::parse(view), given its four reads
section_parsed(view, fields) ==
    [view |-> View_va(view),
     section_type |-> ReadyToRunSectionType_from_u32(fields.vals[1]),
     flags |-> fields.vals[2],
     start |-> fields.vals[3],
     end |-> fields.vals[4]]

\* rtr.rs:154-157: the sections still to read are parsed one after the other
RECURSIVE parse_sections(_, _, _, _)
RECURSIVE parse_sections_after(_, _, _, _, _)
parse_sections_after(img, view, left, sections, fields) ==
    IF ~fields.ok THEN [ok |-> FALSE]
    ELSE parse_sections(img, fields.view, left - 1,
                        Append(sections, section_parsed(view, fields)))
parse_sections(img, view, left, sections) ==
    IF left = 0 THEN [ok |-> TRUE, sections |-> sections]
    ELSE With(ReadFields(img, view, RtrSectionFieldSizes, <<>>),
              LAMBDA fields : parse_sections_after(img, view, left, sections, fields))

\* rtr.rs:144-149: major_version, minor_version, flags, number_of_sections,
\* entry_size, entry_type
RtrFieldSizes == <<2, 2, 4, 2, 1, 1>>

\* rtr.rs:159-168
rtr_built(h, sections) ==
    IF ~sections.ok THEN RtrErr("read")
    ELSE RtrOk([major_version |-> h[1], minor_version |-> h[2], flags |-> h[3],
                number_of_sections |-> h[4], entry_size |-> h[5], entry_type |-> h[6],
                sections |-> sections.sections])

\* rtr.rs:144-157
rtr_fields(img, header) ==
    IF ~header.ok THEN RtrErr("read")
    ELSE IF ~section_count_ensured(header.vals[4]) THEN RtrErr("ensure")
    ELSE With(parse_sections(img, header.view, header.vals[4], <<>>),
              LAMBDA sections : rtr_built(header.vals, sections))

\* rtr.rs:143: Signature::parse
rtr_signature(img, signature) ==
    IF ~signature.ok THEN RtrErr("read")
    ELSE IF ~Signature_try_from(signature.val)
        THEN RtrErr("invalid ReadyToRunHeader signature")
    ELSE With(ReadFields(img, signature.view, RtrFieldSizes, <<>>),
              LAMBDA header : rtr_fields(img, header))

\* ReadyToRunHeader::parse(view)
ReadyToRunHeader_parse(img, view) ==
    With(ReadLe(img, view, 4), LAMBDA signature : rtr_signature(img, signature))

\* binary.rs:54-64: the offset of a signature is made a VA and the header parsed
rtr_at_va(img, va) ==
    IF ~va.ok THEN RtrErr("continue") ELSE ReadyToRunHeader_parse(img, View_new(va.val))
rtr_at_rva(img, rva) ==
    IF ~rva.ok THEN RtrErr("continue")
    ELSE With(rva_to_va(img, rva.val), LAMBDA va : rtr_at_va(img, va))
rtr_at_offset(img, offset) ==
    With(file_offset_to_rva(img, offset), LAMBDA rva : rtr_at_rva(img, rva))

\* binary.rs:50-53: the 4 bytes at the offset are the signature
signature_found(img, offset) == Signature_try_from(LeValue(img.file, offset, 4))

(***************************************************************************)
(* The images load_pe is checked on.  A section holds items: a zero word;  *)
(* a header with `n` sections (16 + 24 n bytes); a header whose section    *)
(* count fails the sanity check; a header announcing a section the file    *)
(* ends before (put last in the file only); a word with the signature in   *)
(* its upper half.  Each header has a major_version of its own.            *)
(***************************************************************************)
LdItem(k, n) == [k |-> k, n |-> n]
LdZero == LdItem("zero", 0)
LdItemSize(item) == IF item.k = "rtr" THEN 16 + 24 * item.n ELSE IF item.k \in {"bad", "cut"} THEN 16 ELSE 8

RECURSIVE LdItemsSize(_)
LdItemsSize(items) == IF items = <<>> THEN 0 ELSE LdItemSize(Head(items)) + LdItemsSize(Tail(items))

LdSectionSize(spec, name) ==
    IF name = ".text" THEN 8 * ScTextWords ELSE LdItemsSize(spec.content[name])

RECURSIVE LdRvaIn(_, _, _, _)
LdRvaIn(spec, name, order, at) ==
    IF order = <<>> \/ Head(order) = name THEN at
    ELSE LdRvaIn(spec, name, Tail(order), at + LdSectionSize(spec, Head(order)))

LdSectionRva(spec, name) == LdRvaIn(spec, name, spec.order, 8 * ScFirstRvaWords)
LdSectionFileOffset(spec, name) ==
    8 * ScHeaderWords + (LdSectionRva(spec, name) - 8 * ScFirstRvaWords)

\* the major_version of the header that is item i of the candidate section s
LdId(s, i) == 16 * s + i

LdHeaderBytes(id, count) ==
    LeBytes(RTR_SIGNATURE, 4) \o LeBytes(id, 2) \o LeBytes(1, 2)
        \o LeBytes(0, 4) \o LeBytes(count, 2) \o LeBytes(24, 1) \o LeBytes(0, 1)

\* the section entry j of a header: the blob 300 + j, from start to end
LdEntryBytes(j) ==
    LeBytes(300 + j, 4) \o LeBytes(0, 4)
        \o LeBytes(ScImageBase + 16 * j, 8) \o LeBytes(ScImageBase + 16 * j + 8, 8)

LdItemBytes(item, id) ==
    IF item.k = "rtr"
    THEN LdHeaderBytes(id, item.n) \o Flatten([j \in 1 .. item.n |-> LdEntryBytes(j)])
    ELSE IF item.k = "bad" THEN LdHeaderBytes(id, Pow2(15))
    ELSE IF item.k = "cut" THEN LdHeaderBytes(id, 1)
    ELSE IF item.k = "off" THEN Zeros(4) \o LeBytes(RTR_SIGNATURE, 4)
    ELSE Zeros(8)

LdSectionIndex(name) == CHOOSE s \in 1 .. 3 : CANDIDATE_DATA_SECTIONS[s] = name

LdSectionBytes(spec, name) ==
    IF name = ".text" THEN Zeros(8 * ScTextWords)
    ELSE Flatten([i \in 1 .. Len(spec.content[name]) |->
                     LdItemBytes(spec.content[name][i], LdId(LdSectionIndex(name), i))])

LdImage(spec) ==
    [ImageBase |-> ScImageBase,
     SizeOfImage |-> LdRvaIn(spec, "", spec.order, 8 * ScFirstRvaWords),
     sections |-> [i \in 1 .. Len(spec.order) |->
                      [name |-> spec.order[i],
                       VirtualAddress |-> LdSectionRva(spec, spec.order[i]),
                       VirtualSize |-> LdSectionSize(spec, spec.order[i]),
                       PointerToRawData |-> LdSectionFileOffset(spec, spec.order[i]),
                       SizeOfRawData |-> LdSectionSize(spec, spec.order[i])]],
     file |-> Zeros(8 * ScHeaderWords)
                \o Flatten([i \in 1 .. Len(spec.order) |->
                               LdSectionBytes(spec, spec.order[i])])]

\* the section orders: all candidate sections, in and against the order they are
\* visited in, and images that lack one or two of them
LdOrders ==
    { <<".text", ".rdata", ".pdata", ".data">>,
      <<".data", ".text", ".pdata", ".rdata">>,
      <<".text", ".pdata", ".data">>,
      <<".data", ".rdata", ".text">>,
      <<".text", ".data">> }

LdMaxSections == 2
LdContents ==
    { <<LdZero>>,
      <<LdZero, LdItem("rtr", 1)>>,
      <<LdItem("bad", 0), LdZero, LdItem("rtr", 0)>>,
      <<LdItem("off", 0), LdItem("bad", 0)>>,
      <<LdItem("rtr", LdMaxSections), LdItem("rtr", 0)>>,
      <<LdZero, LdItem("cut", 0)>> }

LdSpecs ==
    { spec \in [order : LdOrders, content : [{".rdata", ".pdata", ".data"} -> LdContents]] :
        \A name \in {".rdata", ".pdata", ".data"} :
            (\E i \in 1 .. Len(spec.content[name]) : spec.content[name][i].k = "cut")
                => spec.order[Len(spec.order)] = name }

LoadInit ==
    /\ \E spec \in LdSpecs :
          ld = [pc |-> "section", spec |-> spec, img |-> LdImage(spec),
                names |-> CANDIDATE_DATA_SECTIONS, offset |-> 0, end |-> 0,
                visited |-> <<>>, res |-> RtrErr("not returned")]
    /\ cdc = CodecIdle /\ rt = RtIdle /\ ht = HtIdle /\ sc = ScIdle /\ hd = HdIdle /\ tg = TgIdle /\ md = MdIdle /\ ida = IdaIdle

\* binary.rs:43-48, 69: the next candidate section, skipped when the image
\* lacks it; after the last one load_pe fails
LoadNextSection ==
    /\ ld.pc = "section"
    /\ ld' = IF ld.names = <<>>
             THEN [ld EXCEPT !.pc = "failed",
                             !.res = RtrErr("Unable to locate ReadyToRun header")]
             ELSE LET sect == by_name(ld.img, Head(ld.names))
                  IN  IF ~sect.ok THEN [ld EXCEPT !.names = Tail(@)]
                      ELSE [ld EXCEPT !.names = Tail(@), !.pc = "offset",
                                      !.offset = file_range_start(sect.val),
                                      !.end = file_range_end(sect.val)]

\* binary.rs:48-66: one offset of the section's file range
load_visit(st, rtr) ==
    IF rtr.ok THEN [st EXCEPT !.pc = "done", !.res = rtr]
    ELSE [st EXCEPT !.offset = @ + 8]
LoadVisitOffset ==
    /\ ld.pc = "offset"
    /\ ld' = IF ld.offset >= ld.end THEN [ld EXCEPT !.pc = "section"]
             ELSE IF ld.offset + 4 > Len(ld.img.file)
                 THEN [ld EXCEPT !.pc = "panicked", !.visited = Append(@, ld.offset)]
             ELSE IF ~signature_found(ld.img, ld.offset)
                 THEN [ld EXCEPT !.offset = @ + 8, !.visited = Append(@, ld.offset)]
             ELSE With(rtr_at_offset(ld.img, ld.offset),
                       LAMBDA rtr : load_visit([ld EXCEPT !.visited = Append(@, ld.offset)],
                                               rtr))

LoadNext ==
    /\ \/ LoadNextSection
       \/ LoadVisitOffset
    /\ UNCHANGED <<cdc, rt, ht, sc, hd, tg, md, ida>>

SpecLoad == LoadInit /\ [][LoadNext]_vars

\* the file offsets of the candidate sections the image has, in the order
\* .rdata, .pdata, .data and ascending by 8 inside a section
C13_Offsets(spec) ==
    Flatten([s \in 1 .. 3 |->
        IF \E i \in 1 .. Len(spec.order) : spec.order[i] = CANDIDATE_DATA_SECTIONS[s]
        THEN [k \in 1 .. LdSectionSize(spec, CANDIDATE_DATA_SECTIONS[s]) \div 8 |->
                 LdSectionFileOffset(spec, CANDIDATE_DATA_SECTIONS[s]) + 8 * (k - 1)]
        ELSE <<>>])

\* the headers laid out in the image that parse in full, as <<file offset,
\* major_version, number of sections>>
C13_Headers(spec) ==
    { <<LdSectionFileOffset(spec, CANDIDATE_DATA_SECTIONS[s])
            + LdItemsSize(SubSeq(spec.content[CANDIDATE_DATA_SECTIONS[s]], 1, i - 1)),
        LdId(s, i), spec.content[CANDIDATE_DATA_SECTIONS[s]][i].n>> :
        <<s, i>> \in { p \in (1 .. 3) \X (1 .. 3) :
            /\ \E j \in 1 .. Len(spec.order) : spec.order[j] = CANDIDATE_DATA_SECTIONS[p[1]]
            /\ p[2] <= Len(spec.content[CANDIDATE_DATA_SECTIONS[p[1]]])
            /\ spec.content[CANDIDATE_DATA_SECTIONS[p[1]]][p[2]].k = "rtr" } }

\* position of the first offset of the visiting order that holds such a header
C13_FirstAt(spec) ==
    LET at == {k \in 1 .. Len(C13_Offsets(spec)) :
                  \E h \in C13_Headers(spec) : h[1] = C13_Offsets(spec)[k]}
    IN  IF at = {} THEN 0 ELSE CHOOSE k \in at : \A j \in at : k <= j

\* C13: load_pe visits the offsets of the candidate sections in the order
\* .rdata, .pdata, .data and ascending by 8 inside each; it returns the header
\* parsed at the first visited offset that holds the signature and parses in
\* full, having passed over signatures whose parse fails, and visits no offset
\* after it; it fails, every offset visited, when no offset gives a header.
C13_LoadPe ==
    /\ ld.pc # "none" =>
          /\ Len(ld.visited) <= Len(C13_Offsets(ld.spec))
          /\ ld.visited = SubSeq(C13_Offsets(ld.spec), 1, Len(ld.visited))
          /\ ld.pc # "panicked"
    /\ ld.pc = "done" =>
          /\ C13_FirstAt(ld.spec) = Len(ld.visited)
          /\ \E h \in C13_Headers(ld.spec) :
                /\ h[1] = ld.visited[Len(ld.visited)]
                /\ ld.res.rtr.major_version = h[2]
                /\ ld.res.rtr.number_of_sections = h[3]
                /\ Len(ld.res.rtr.sections) = h[3]
    /\ ld.pc = "failed" =>
          /\ C13_FirstAt(ld.spec) = 0
          /\ ld.visited = C13_Offsets(ld.spec)

\* a header of the third section visited was returned after signatures whose
\* parse fails were passed over in the sections before it
C13_Witness ==
    /\ ld.pc = "done"
    /\ ld.res.rtr.major_version = LdId(3, 3)
    /\ \E k \in 1 .. Len(ld.visited) - 1 :
          /\ signature_found(ld.img, ld.visited[k])
          /\ ~rtr_at_offset(ld.img, ld.visited[k]).ok
    /\ \E i \in 1 .. Len(ld.spec.content[".rdata"]) : ld.spec.content[".rdata"][i].k = "cut"
    /\ ld.spec.order = <<".data", ".text", ".pdata", ".rdata">>

(***************************************************************************)
(* The embedded metadata (embedded_meta/mod.rs, collections.rs, utils.rs). *)
(* The stream is a sequence of bytes; a record is read field by field from *)
(* the offset of its handle.  A BaseHandle, whose kind may be any 7 bits,  *)
(* is kept as the two 16-bit halves of its u32; strings are sequences of   *)
(* bytes.                                                                  *)
(***************************************************************************)
MetaErr(why, o) == [ok |-> FALSE, err |-> why, off |-> o]

U32Of(n) == U32(n \div Pow2(16), n % Pow2(16))

\* Handle::to_base
Handle_to_base(handle) == U32Of(Handle_to_value(handle))

\* BaseHandle::from_value: handle_type = value & 0x7F, offset = value >> 7,
\* handle_type << 25 | offset
BaseHandle_from_value(value) ==
    U32(BitAnd(value, 127) * Pow2(9) + Shr(value, 7) \div Pow2(16), Shr(value, 7) % Pow2(16))

\* BaseHandle::from_raw
BaseHandle_from_raw(value) == U32Of(value)

\* BaseHandle::handle_type: HandleType::try_from((self.0 >> 25) as u8).ok()
BaseHandle_handle_type(base) ==
    LET t == HandleType_try_from(U32Shr(base, HANDLE_TYPE_SHIFT) % 256)
    IN  IF t.ok THEN Some(t.val) ELSE None

BaseHandle_offset(base) == U32And(base, HANDLE_OFFSET_MASK)

\* BaseHandle::to_handle::<H>
BaseHandle_to_handle(typ, base) == Handle_from_value(typ, base)

\* <$name as NativeReadable>::read: decode_unsigned, then from_value
handle_read_value(typ, r) ==
    IF ~r.ok THEN r
    ELSE IF ~Handle_from_value(typ, U32Of(r.val)).ok THEN MetaErr("InvalidMetaHandle", r.off)
    ELSE Ok(Handle_from_value(typ, U32Of(r.val)).val, r.off)
Handle_read(typ, data, offset) ==
    handle_read_value(typ, decode_unsigned(data, offset))

\* <BaseHandle as NativeReadable>::read
base_read_value(r) == IF ~r.ok THEN r ELSE Ok(BaseHandle_from_value(r.val), r.off)
BaseHandle_read(data, offset) ==
    base_read_value(decode_unsigned(data, offset))

\* collections.rs:97-109: a collection is its start offset; reading one skips
\* the count and as many integers
RECURSIVE skip_integers(_, _, _)
skip_integers_after(data, left, r) ==
    IF ~r.ok THEN r ELSE skip_integers(data, r.off, left - 1)
skip_integers(data, offset, left) ==
    IF left = 0 THEN Ok(<<>>, offset)
    ELSE skip_integers_after(data, left, skip_integer(data, offset))
collection_skipped(offset, r) == IF ~r.ok THEN r ELSE Ok(offset, r.off)
collection_counted(data, offset, count) ==
    IF ~count.ok THEN count
    ELSE collection_skipped(offset, skip_integers(data, count.off, count.val))
Collection_read(data, offset) ==
    collection_counted(data, offset, decode_unsigned(data, offset))

\* collections.rs:130-141: ByteCollection
bytes_counted(offset, length) ==
    IF ~length.ok THEN length ELSE Ok(offset, length.off + length.val)
ByteCollection_read(data, offset) ==
    bytes_counted(offset, decode_unsigned(data, offset))

\* reader.rs:291-298: u16 is decode_unsigned truncated; 280-289: u8 is one raw byte
u16_read_value(r) == IF ~r.ok THEN r ELSE Ok(r.val % Pow2(16), r.off)
u8_read_value(r) == IF ~r.ok THEN r ELSE Ok(r.val, r.off + 1)

\* a field of a record: what is read for it
MdField(name, k, typ) == [name |-> name, k |-> k, typ |-> typ]
read_field(data, offset, field) ==
    CASE field.k = "u32" -> decode_unsigned(data, offset)
      [] field.k = "u16" -> u16_read_value(decode_unsigned(data, offset))
      [] field.k = "u8" -> u8_read_value(read_u8(data, offset))
      [] field.k = "string" -> decode_string(data, offset)
      [] field.k = "base" -> BaseHandle_read(data, offset)
      [] field.k = "handle" -> Handle_read(field.typ, data, offset)
      [] field.k = "collection" -> Collection_read(data, offset)
      [] field.k = "bytes" -> ByteCollection_read(data, offset)

\* impl_handle! / $name::new: the fields read one after the other from the
\* offset of the handle, `?` ending the read at the first that fails
RECURSIVE read_record(_, _, _, _)
read_record_after(data, fields, vals, r) ==
    IF ~r.ok THEN r
    ELSE read_record(data, r.off, Tail(fields), vals @@ (Head(fields).name :> r.val))
read_record(data, offset, fields, vals) ==
    IF fields = <<>> THEN Ok(vals, offset)
    ELSE read_record_after(data, fields, vals, read_field(data, offset, Head(fields)))

\* $handle::to_data(reader): the record of the handle
to_data(data, handle, fields) ==
    read_record(data, Handle_offset(handle), fields, "handle" :> handle)

HandleType_ConstantStringValue == 26
HandleType_GenericParameter == 38
HandleType_Method == 40
HandleType_MethodSignature == 43
HandleType_NamespaceDefinition == 47
HandleType_QualifiedMethod == 54
HandleType_ScopeDefinition == 56
HandleType_TypeDefinition == 58

TypedField(name, typ) == MdField(name, "handle", typ)
PlainField(name, k) == MdField(name, k, 0)

\* mod.rs:138-155
ScopeDefinitionFields ==
    <<PlainField("flags", "u32"), TypedField("name", HandleType_ConstantStringValue),
      PlainField("hash_algorithm", "u32"), PlainField("major_version", "u16"),
      PlainField("minor_version", "u16"), PlainField("build_number", "u16"),
      PlainField("revision_number", "u16"), PlainField("public_key", "bytes"),
      TypedField("culture", HandleType_ConstantStringValue),
      TypedField("root_namespace_definition", HandleType_NamespaceDefinition),
      TypedField("entrypoint", HandleType_QualifiedMethod),
      TypedField("global_module_type", HandleType_TypeDefinition),
      PlainField("custom_attributes", "collection"),
      TypedField("module_name", HandleType_ConstantStringValue),
      PlainField("mvid", "bytes"), PlainField("module_custom_attributes", "collection")>>

\* mod.rs:157-161
ConstantStringValueFields == <<PlainField("value", "string")>>

\* mod.rs:163-169
NamespaceDefinitionFields ==
    <<PlainField("parent_scope_or_namespace", "base"),
      TypedField("name", HandleType_ConstantStringValue),
      PlainField("type_definitions", "collection"),
      PlainField("type_forwarders", "collection"),
      PlainField("namespace_definitions", "collection")>>

\* mod.rs:171-187
TypeDefinitionFields ==
    <<PlainField("flags", "u32"), PlainField("base_type", "base"),
      TypedField("namespace_definition", HandleType_NamespaceDefinition),
      TypedField("name", HandleType_ConstantStringValue),
      PlainField("size", "u32"), PlainField("packing_size", "u16"),
      TypedField("enclosing_type", HandleType_TypeDefinition),
      PlainField("nested_types", "collection"), PlainField("methods", "collection"),
      PlainField("fields", "collection"), PlainField("properties", "collection"),
      PlainField("events", "collection"), PlainField("generic_parameters", "collection"),
      PlainField("interfaces", "collection"), PlainField("custom_attributes", "collection")>>

\* mod.rs:189-197; MethodAttributes is read as a u32
MethodFields ==
    <<PlainField("flags", "u32"), PlainField("impl_flags", "u32"),
      TypedField("name", HandleType_ConstantStringValue),
      TypedField("signature", HandleType_MethodSignature),
      PlainField("parameters", "collection"),
      PlainField("generic_parameters", "collection"),
      PlainField("custom_attributes", "collection")>>

\* mod.rs:241-248
GenericParameterFields ==
    <<PlainField("number", "u16"), PlainField("flags", "u32"), PlainField("kind", "u8"),
      TypedField("name", HandleType_ConstantStringValue),
      PlainField("constraints", "collection"),
      PlainField("custom_attributes", "collection")>>

\* "a.b": the strings joined with sep between them
RECURSIVE Join(_, _)
Join(strs, sep) ==
    IF strs = <<>> THEN <<>>
    ELSE IF Len(strs) = 1 THEN strs[1]
    ELSE strs[1] \o sep \o Join(Tail(strs), sep)

Reverse(s) == [i \in 1 .. Len(s) |-> s[Len(s) + 1 - i]]
Dot == <<46>>


\* utils.rs:117-120: format!("{}.{type_name}", ns_names.rev().join("."))
full_name_format(ns_names, type_name) ==
    Ok(Join(Reverse(ns_names), Dot) \o Dot \o type_name, 0)

\* utils.rs:100-115: the loop over the namespaces, from ns_handle on; a chain
\* that never ends is cut after `fuel` namespaces
RECURSIVE namespace_walk(_, _, _, _, _)
namespace_named(data, namespace, ns_names, type_name, fuel, name) ==
    IF ~name.ok THEN name
    ELSE namespace_walk(data, namespace.parent_scope_or_namespace,
                        Append(ns_names, name.val.value), type_name, fuel - 1)
namespace_read(data, ns_names, type_name, fuel, namespace) ==
    IF ~namespace.ok THEN namespace
    ELSE IF Handle_is_nil(namespace.val.name) THEN full_name_format(ns_names, type_name)
    ELSE namespace_named(
            data, namespace.val, ns_names, type_name, fuel,
            to_data(data, namespace.val.name, ConstantStringValueFields))
namespace_handle(data, ns_names, type_name, fuel, handle) ==
    IF ~handle.ok THEN MetaErr(handle.err, 0)
    ELSE namespace_read(data, ns_names, type_name, fuel, to_data(data, handle.val, NamespaceDefinitionFields))
namespace_walk(data, ns_handle, ns_names, type_name, fuel) ==
    IF fuel = 0 THEN MetaErr("endless", 0)
    ELSE IF BaseHandle_handle_type(ns_handle) # Some(HandleType_NamespaceDefinition)
        THEN full_name_format(ns_names, type_name)
    ELSE namespace_handle(data, ns_names, type_name, fuel, BaseHandle_to_handle(HandleType_NamespaceDefinition, ns_handle))

\* TypeDefinition::get_full_name
full_name_of(data, type_def, type_name) ==
    IF ~type_name.ok THEN type_name
    ELSE namespace_walk(data, Handle_to_base(type_def.namespace_definition), <<>>,
                        type_name.val.value, Len(data))
get_full_name(data, type_def) ==
    full_name_of(data, type_def, to_data(data, type_def.name, ConstantStringValueFields))


\* utils.rs:126-143: the names of the generic parameters; any failure gives None
RECURSIVE generic_names_from(_, _, _, _)
generic_named(data, offset, remaining, acc, name) ==
    IF ~name.ok THEN None
    ELSE generic_names_from(data, offset, remaining - 1, Append(acc, name.val.value))
generic_param(data, offset, remaining, acc, param) ==
    IF ~param.ok THEN None
    ELSE generic_named(data, offset, remaining, acc, to_data(data, param.val.name, ConstantStringValueFields))
generic_handle(data, remaining, acc, hdl) ==
    IF ~hdl.ok THEN None
    ELSE generic_param(data, hdl.off, remaining, acc, to_data(data, hdl.val, GenericParameterFields))
generic_names_from(data, offset, remaining, acc) ==
    IF remaining = 0 THEN Some(acc)
    ELSE generic_handle(data, remaining, acc, Handle_read(HandleType_GenericParameter, data, offset))
generic_names_counted(data, count) ==
    IF ~count.ok THEN None ELSE generic_names_from(data, count.off, count.val, <<>>)
generic_names(data, collection) ==
    generic_names_counted(data, decode_unsigned(data, collection))

\* "<a, b>", or nothing when there is no name
generics_format(names) ==
    IF ~names.some \/ names.val = <<>> THEN <<>>
    ELSE <<60>> \o Join(names.val, <<44, 32>>) \o <<62>>

\* TypeDefinition::get_full_name_with_generics
full_name_with(data, type_def, full_name) ==
    IF ~full_name.ok THEN full_name
    ELSE Ok(full_name.val \o generics_format(generic_names(data, type_def.generic_parameters)), 0)
get_full_name_with_generics(data, type_def) ==
    full_name_with(data, type_def, get_full_name(data, type_def))

(***************************************************************************)
(* Metadata streams to read names from: records in slots of MdSlot bytes.  *)
(***************************************************************************)
MdSlot == 32
MdAt(slot) == slot * MdSlot
MdPad(bytes) == bytes \o Zeros(MdSlot - Len(bytes))

\* MetadataHeader::SIGNATURE 0xDEADDFFD in little-endian order
MdSignatureBytes == <<253, 223, 173, 222>>

\* a BaseHandle as it is stored: offset << 7 | kind
MdBaseValue(kind, offset) == offset * Pow2(7) + kind
MdCollection(offsets) ==
    EncodeUnsigned(Len(offsets)) \o Flatten([i \in 1 .. Len(offsets) |-> EncodeUnsigned(offsets[i])])
MdStringRecord(str) == EncodeString(str)
MdNamespaceRecord(parent, name) ==
    EncodeUnsigned(parent) \o EncodeUnsigned(name) \o <<0, 0, 0>>
MdTypeRecord(namespace, name, generics) ==
    <<0, 0>> \o EncodeUnsigned(namespace) \o EncodeUnsigned(name) \o <<0, 0, 0>>
    \o <<0, 0, 0, 0, 0>> \o MdCollection(generics) \o <<0, 0>>
MdGenericRecord(number, name) == EncodeUnsigned(number) \o <<0, 0>> \o EncodeUnsigned(name) \o <<0, 0>>
MdMethodRecord(name) == <<0, 0>> \o EncodeUnsigned(name) \o <<0, 0, 0, 0>>

\* A type in a chain of namespaces: names are the namespaces' names from the
\* innermost out, root what the outermost one's parent is ("nil": a namespace
\* without a name, whose parent is a scope; "scope": a scope; "null": the Null
\* handle; "other": a handle of a kind that is not defined), generics the names
\* of the type's generic parameters.
\* slot 1 the type, 2 its name, 2i + 1 and 2i + 2 namespace i and its name,
\* then the root, then each generic parameter and its name.
MdRootSlot(s) == 2 * Len(s.names) + 3
MdGenericSlot(s, j) == MdRootSlot(s) + 2 * j - 1
MdParentOf(s, i) ==
    IF i < Len(s.names) THEN MdBaseValue(HandleType_NamespaceDefinition, MdAt(2 * i + 3))
    ELSE CASE s.root = "nil" -> MdBaseValue(HandleType_NamespaceDefinition, MdAt(MdRootSlot(s)))
           [] s.root = "scope" -> MdBaseValue(HandleType_ScopeDefinition, MdAt(MdRootSlot(s)))
           [] s.root = "null" -> MdBaseValue(HandleType_Null, 0)
           [] s.root = "other" -> MdBaseValue(1, MdAt(MdRootSlot(s)))
MdNamespaceOf(s) ==
    IF s.names = <<>> /\ s.root # "nil" THEN 0 ELSE MdAt(3)
MdNamespaceSlots(s) ==
    Flatten([i \in 1 .. Len(s.names) |->
        <<MdPad(MdNamespaceRecord(MdParentOf(s, i), MdAt(2 * i + 2))),
          MdPad(MdStringRecord(s.names[i]))>>])
MdGenericSlots(s) ==
    Flatten([j \in 1 .. Len(s.generics) |->
        <<MdPad(MdGenericRecord(j - 1, MdAt(MdGenericSlot(s, j) + 1))),
          MdPad(MdStringRecord(s.generics[j]))>>])
MdTypeSlots(s) ==
    <<MdPad(MdTypeRecord(MdNamespaceOf(s), MdAt(2),
                         [j \in 1 .. Len(s.generics) |-> MdAt(MdGenericSlot(s, j))])),
      MdPad(MdStringRecord(s.type_name))>>
MdRootSlots(s) ==
    <<MdPad(MdNamespaceRecord(MdBaseValue(HandleType_ScopeDefinition, 0), 0))>>
MdStream(s) ==
    Flatten(<<MdPad(MdSignatureBytes \o <<0>>)>> \o MdTypeSlots(s) \o MdNamespaceSlots(s)
            \o MdRootSlots(s) \o MdGenericSlots(s))

MdMaxChain == 3
MdNames == {<<78, 49>>, <<78, 50>>, <<65>>}
MdTypeNames == {<<84>>, <<76, 105, 115, 116>>}
MdGenerics == {<<>>, <<<<75>>>>, <<<<75>>, <<86>>>>}
MdRoots == {"nil", "scope", "null", "other"}
MdChains == UNION {[1 .. n -> MdNames] : n \in 0 .. MdMaxChain}
MdSpecs ==
    [names : MdChains, root : MdRoots, type_name : MdTypeNames, generics : MdGenerics]

MetaInit ==
    /\ \E s \in MdSpecs : md = [pc |-> "type", spec |-> s, data |-> MdStream(s), type_def |-> <<>>,
                               res |-> <<>>, with_generics |-> <<>>]
    /\ cdc = CodecIdle /\ rt = RtIdle /\ ht = HtIdle /\ sc = ScIdle /\ hd = HdIdle /\ tg = TgIdle /\ ld = LdIdle /\ ida = IdaIdle

\* TypeDefinitionHandle::to_data of the handle at slot 1
MetaReadType ==
    /\ md.pc = "type"
    /\ md' = [md EXCEPT !.pc = "name",
                        !.type_def = to_data(md.data, Handle_from_value(HandleType_TypeDefinition,
                                                 U32Of(MdAt(1))).val, TypeDefinitionFields)]
    /\ UNCHANGED <<cdc, rt, ht, sc, hd, tg, ld, ida>>

MetaGetFullName ==
    /\ md.pc = "name"
    /\ md.type_def.ok
    /\ md' = [md EXCEPT !.pc = "generics", !.res = get_full_name(md.data, md.type_def.val)]
    /\ UNCHANGED <<cdc, rt, ht, sc, hd, tg, ld, ida>>

MetaGetFullNameWithGenerics ==
    /\ md.pc = "generics"
    /\ md' = [md EXCEPT !.pc = "done",
                        !.with_generics = get_full_name_with_generics(md.data, md.type_def.val)]
    /\ UNCHANGED <<cdc, rt, ht, sc, hd, tg, ld, ida>>

MetaNext == MetaReadType \/ MetaGetFullName \/ MetaGetFullNameWithGenerics

SpecMeta == MetaInit /\ [][MetaNext]_vars

\* the namespaces a walk from the type's namespace handle meets before it ends
C19_Walked == md.spec.names # <<>> \/ md.spec.root = "nil"
C19_Called == md.pc \in {"generics", "done"} /\ C19_Walked

\* C19 (the part that holds): with at least one named namespace, get_full_name
\* is the names from the outermost in joined with '.', then '.', then the
\* type's own name
C19_Namespaced ==
    (C19_Called /\ md.spec.names # <<>>)
        => (md.res.ok /\ md.res.val = Join(Append(Reverse(md.spec.names), md.spec.type_name), Dot))

\* C19: get_full_name is the names of the namespaces walked, from the outermost
\* in, joined with '.', followed by the type's own name
C19_FullName ==
    C19_Called
        => (md.res.ok /\ md.res.val = Join(Append(Reverse(md.spec.names), md.spec.type_name), Dot))

\* what get_full_name returns for a type directly in the unnamed root namespace
C19_RootType ==
    (C19_Called /\ md.spec.names = <<>>) => (md.res.ok /\ md.res.val = Dot \o md.spec.type_name)


(***************************************************************************)
(* main and dump_ida (main.rs), and the definition they write (ida/mod.rs).*)
(* The binary is what the calls of dump_ida return for it: the metadata    *)
(* stream's bytes, the VA each fixup index resolves to, the payloads that  *)
(* a TypeMap lookup yields for a hashcode and that the InvokeMap           *)
(* enumerates (each the bytes its parser reads), and the method tables     *)
(* scan_method_tables returns.  Text is a sequence of bytes.               *)
(***************************************************************************)
\* main.rs:297-304
REQUIRED_ASSEMBLIES ==
    <<<<72, 121, 116, 97, 108, 101, 46, 78, 97, 116>>,
      <<72, 121, 116, 97, 108, 101, 46, 80, 114, 111, 116, 111, 99, 111, 108>>,
      <<72, 121, 116, 97, 108, 101, 46, 80, 114, 111, 116, 111, 99, 111, 108, 46, 82, 117, 110, 116, 105, 109, 101>>,
      <<72, 121, 116, 97, 108, 101, 67, 108, 105, 101, 110, 116>>,
      <<78, 111, 101, 115, 105, 115, 46, 71, 85, 73>>,
      <<72, 121, 116, 97, 108, 101, 67, 108, 105, 101, 110, 116, 46, 73, 110, 116, 101, 114, 111, 112>>>>

\* Hytale.Nat, Hytale.Protocol, Hytale.Protocol.Runtime, HytaleClient, Noesis.GUI, HytaleClient.Interop

\* mt.rs:96-129: the Debug names of ElementType
ElementTypeNames ==
    (0 :> <<85, 110, 107, 110, 111, 119, 110>>) @@
    (1 :> <<86, 111, 105, 100>>) @@
    (2 :> <<66, 111, 111, 108, 101, 97, 110>>) @@
    (3 :> <<67, 104, 97, 114>>) @@
    (4 :> <<83, 66, 121, 116, 101>>) @@
    (5 :> <<66, 121, 116, 101>>) @@
    (6 :> <<73, 110, 116, 49, 54>>) @@
    (7 :> <<85, 73, 110, 116, 49, 54>>) @@
    (8 :> <<73, 110, 116, 51, 50>>) @@
    (9 :> <<85, 73, 110, 116, 51, 50>>) @@
    (10 :> <<73, 110, 116, 54, 52>>) @@
    (11 :> <<85, 73, 110, 116, 54, 52>>) @@
    (12 :> <<73, 110, 116, 80, 116, 114>>) @@
    (13 :> <<85, 73, 110, 116, 80, 116, 114>>) @@
    (14 :> <<83, 105, 110, 103, 108, 101>>) @@
    (15 :> <<68, 111, 117, 98, 108, 101>>) @@
    (16 :> <<86, 97, 108, 117, 101, 84, 121, 112, 101>>) @@
    (18 :> <<78, 117, 108, 108, 97, 98, 108, 101>>) @@
    (20 :> <<67, 108, 97, 115, 115>>) @@
    (21 :> <<73, 110, 116, 101, 114, 102, 97, 99, 101>>) @@
    (22 :> <<83, 121, 115, 116, 101, 109, 65, 114, 114, 97, 121>>) @@
    (23 :> <<65, 114, 114, 97, 121>>) @@
    (24 :> <<83, 122, 65, 114, 114, 97, 121>>) @@
    (25 :> <<66, 121, 82, 101, 102>>) @@
    (26 :> <<80, 111, 105, 110, 116, 101, 114>>) @@
    (27 :> <<70, 117, 110, 99, 116, 105, 111, 110, 80, 111, 105, 110, 116, 101, 114>>)

\* {:x}
HexDigit(d) == IF d < 10 THEN 48 + d ELSE 87 + d
RECURSIVE Hex(_)
Hex(n) == IF n < 16 THEN <<HexDigit(n)>> ELSE Append(Hex(n \div 16), HexDigit(n % 16))

\* str::replace of one character by another
Replace(str, from, to) == [k \in 1 .. Len(str) |-> IF str[k] = from THEN to ELSE str[k]]

\* str::split on one character
RECURSIVE Split(_, _, _)
Split(str, sep, part) ==
    IF str = <<>> THEN <<part>>
    ELSE IF Head(str) = sep THEN <<part>> \o Split(Tail(str), sep, <<>>)
    ELSE Split(Tail(str), sep, Append(part, Head(str)))

Bar == 124
Underscore == 95
Period == 46

\* ida/mod.rs:24-41
create_mt_struct(definition, address, name, vtables, ifaces) ==
    [definition EXCEPT !.mt_structs =
        Append(@, [name |-> Split(Replace(name, Bar, Underscore), Period, <<>>),
                   vtables |-> vtables, ifaces |-> ifaces, address |-> address])]

\* ida/mod.rs:43-48
create_function(definition, address, name) ==
    [definition EXCEPT !.functions =
        Append(@, [name |-> Replace(Replace(name, Bar, Underscore), Period, Underscore),
                   address |-> address])]

\* HytaleDefinition::default()
HytaleDefinition_default == [mt_structs |-> <<>>, functions |-> <<>>]

\* MetadataHeader::decode (mod.rs:120-131): the first four bytes are the signature
signature_matches(data) == InSliceRange(data, 0, 4) /\ SubSeq(data, 1, 4) = MdSignatureBytes

\* ReadyToRunHeader::metadata (rtr.rs:188-193)
rtr_metadata(binary) ==
    IF ~binary.metadata.some THEN None
    ELSE IF ~signature_matches(binary.metadata.val) THEN None
    ELSE binary.metadata

\* ExternalReferencesTable::get_va_from_index, by what it resolves each index to
fixup_va(fixups, index) == IF index + 1 \in DOMAIN fixups THEN fixups[index + 1] ELSE None

\* NativeParser::get_unsigned (parser.rs:20-22) of the parser at offset of data
get_unsigned(data, offset) == decode_unsigned(data, offset)

\* main.rs:311-317: the names of the scope definitions; flatten and flat_map
\* drop every handle, record and name that fails
RECURSIVE scope_names_from(_, _, _, _)
scope_named(data, offset, remaining, acc, name) ==
    scope_names_from(data, offset, remaining - 1,
                     IF name.ok THEN Append(acc, name.val.value) ELSE acc)
scope_read(data, offset, remaining, acc, scope) ==
    IF ~scope.ok THEN scope_names_from(data, offset, remaining - 1, acc)
    ELSE scope_named(data, offset, remaining, acc, to_data(data, scope.val.name, ConstantStringValueFields))
scope_handle(data, remaining, acc, hdl) ==
    IF ~hdl.ok THEN scope_names_from(data, hdl.off, remaining - 1, acc)
    ELSE scope_read(data, hdl.off, remaining, acc, to_data(data, hdl.val, ScopeDefinitionFields))
scope_names_from(data, offset, remaining, acc) ==
    IF remaining = 0 THEN acc
    ELSE scope_handle(data, remaining, acc, Handle_read(HandleType_ScopeDefinition, data, offset))
scope_names_counted(data, count) ==
    IF ~count.ok THEN count ELSE Ok(scope_names_from(data, count.off, count.val, <<>>), 0)
scope_names(data) ==
    scope_names_counted(data, decode_unsigned(data, 4))

\* another test: every assembly counts as present
assembly_present_always(scopes, assembly) == TRUE

\* main.rs:323: scopes.iter().any(|scope| scope == assembly)
assembly_present(scopes, assembly) == \E k \in 1 .. Len(scopes) : scopes[k] = assembly

\* main.rs:322-329: the first required assembly that is missing
RECURSIVE first_missing(_, _)
first_missing(scopes, required) ==
    IF required = <<>> THEN None
    ELSE IF ~assembly_present(scopes, Head(required)) THEN Some(Head(required))
    ELSE first_missing(scopes, Tail(required))

\* what dump_ida prints and returns: Ok(()) after a line on standard error, the
\* error of a `?`, or nothing yet
Returned(line) == [returns |-> TRUE, ok |-> TRUE, line |-> line]
Failed(err) == [returns |-> TRUE, ok |-> FALSE, err |-> err]
GoesOn == [returns |-> FALSE]

\* main.rs:306-345: the checks before the scan
gate_blobs(binary) ==
    IF ~binary.fixups.some THEN Returned([text |-> "Missing CommonFixupsTable"])
    ELSE IF ~binary.type_map.some THEN Returned([text |-> "Missing TypeMap"])
    ELSE IF ~binary.invoke_map.some THEN Returned([text |-> "Missing InvokeMap"])
    ELSE GoesOn
gate_missing(binary, missing) ==
    IF missing.some
    THEN Returned([text |-> "Assembly is missing from target binary", assembly |-> missing.val])
    ELSE gate_blobs(binary)
gate_scopes(binary, scopes) ==
    IF ~scopes.ok THEN Returned([text |-> "Unable to enumerate scope definitions"])
    ELSE gate_missing(binary, first_missing(scopes.val, REQUIRED_ASSEMBLIES))
gate_metadata(binary, metadata) ==
    IF ~metadata.some THEN Returned([text |-> "Image is missing a metadata section"])
    ELSE gate_scopes(binary, scope_names(metadata.val))
dump_ida_gate(binary) ==
    gate_metadata(binary, rtr_metadata(binary))

\* main.rs:362-383 (and again 421-441): the name of the type of the MT at va, from
\* the entries a TypeMap lookup yields: Ok of Some name, Ok of None, or the error
\* of a `?`
RECURSIVE type_name_from(_, _, _)
type_name_full(full_name) ==
    IF ~full_name.ok THEN full_name ELSE Ok(Some(full_name.val), 0)
type_name_record(binary, entries, va, type_def) ==
    IF ~type_def.ok THEN type_name_from(binary, Tail(entries), va)
    ELSE type_name_full(get_full_name_with_generics(binary.metadata.val, type_def.val))
type_name_handle(binary, entries, va, handle) ==
    IF ~handle.ok THEN type_name_from(binary, Tail(entries), va)
    ELSE type_name_record(binary, entries, va, to_data(binary.metadata.val, handle.val, TypeDefinitionFields))
type_name_raw(binary, entries, va, raw) ==
    IF ~raw.ok THEN raw
    ELSE type_name_handle(binary, entries, va, BaseHandle_to_handle(HandleType_TypeDefinition, BaseHandle_from_raw(raw.val)))
type_name_index(binary, entries, va, index) ==
    IF ~index.ok THEN index
    ELSE IF fixup_va(binary.fixups.val, index.val) # Some(va)
        THEN type_name_from(binary, Tail(entries), va)
    ELSE type_name_raw(binary, entries, va, get_unsigned(Head(entries), index.off))
type_name_from(binary, entries, va) ==
    IF entries = <<>> THEN Ok(None, 0)
    ELSE type_name_index(binary, entries, va, get_unsigned(Head(entries), 0))

\* type_map.lookup(hashcode): the payloads of the entries it yields, or its error
type_map_lookup(binary, hashcode) ==
    IF hashcode \in DOMAIN binary.type_map.val THEN binary.type_map.val[hashcode]
    ELSE Ok(<<>>, 0)

\* main.rs:354-386: Ok of the name of an MT, or the error of a `?`
Vtbl == <<95, 118, 116, 98, 108>>
mt_fallback_name(mt) == ElementTypeNames[mt.element_type] \o <<Underscore>> \o Hex(mt.va) \o Vtbl
mt_name_found(mt, name) ==
    IF ~name.ok THEN name
    ELSE IF name.val.some THEN Ok(name.val.val \o Vtbl, 0)
    ELSE Ok(mt_fallback_name(mt), 0)
mt_name_looked(binary, mt, iter) ==
    IF ~iter.ok THEN Ok(mt_fallback_name(mt), 0)
    ELSE mt_name_found(mt, type_name_from(binary, iter.val, mt.va))
mt_name(binary, mt) ==
    mt_name_looked(binary, mt, type_map_lookup(binary, mt.hashcode))

\* main.rs:353-390: one turn of the loop over the method tables
name_mt_with(definition, mt, name) ==
    IF ~name.ok THEN Failed(name.err)
    ELSE [returns |-> FALSE,
          definition |-> create_mt_struct(definition, mt.va, name.val,
                                          mt.vtables, mt.ifaces)]
name_mt(binary, definition, mt) ==
    name_mt_with(definition, mt, mt_name(binary, mt))

\* another test of the flags: every entry counts as an entrypoint
is_entrypoint_always(flags) == TRUE

\* main.rs:412: flags & 32 == 0 skips the entry
is_entrypoint(flags) == BitAnd(flags, 32) # 0

\* .and_then(|mt_va| method_tables.iter().find(|mt| mt.view.va() == mt_va))
find_mt(method_tables, mt_va) ==
    IF ~mt_va.some THEN None
    ELSE IF \E k \in 1 .. Len(method_tables) : method_tables[k].va = mt_va.val
        THEN Some(method_tables[CHOOSE k \in 1 .. Len(method_tables) :
                      /\ method_tables[k].va = mt_va.val
                      /\ \A j \in 1 .. k - 1 : method_tables[j].va # mt_va.val])
    ELSE None

\* main.rs:393-452: one turn of the loop over the entries of the InvokeMap:
\* unchanged definition (continue), a function more, or the error of a `?`
Skipped(definition) == [returns |-> FALSE, definition |-> definition]
function_named(definition, type_name, entrypoint_va, name) ==
    IF ~name.ok THEN Failed(name.err)
    ELSE [returns |-> FALSE,
          definition |-> create_function(definition, entrypoint_va.val,
                                         type_name \o <<Period>> \o name.val.value)]
function_entrypoint(binary, definition, method_def, type_name, index) ==
    IF ~index.ok THEN Failed(index.err)
    ELSE IF ~fixup_va(binary.fixups.val, index.val).some THEN Skipped(definition)
    ELSE function_named(
            definition, type_name, fixup_va(binary.fixups.val, index.val),
            to_data(binary.metadata.val, method_def.name, ConstantStringValueFields))
function_type_name(binary, definition, entry, offset, method_def, name) ==
    IF ~name.ok THEN Failed(name.err)
    ELSE IF ~name.val.some THEN Skipped(definition)
    ELSE function_entrypoint(binary, definition, method_def,
                                                 name.val.val, get_unsigned(entry, offset))
function_lookup(binary, definition, entry, offset, method_def, mt, iter) ==
    IF ~iter.ok THEN Skipped(definition)
    ELSE function_type_name(binary, definition, entry, offset,
                                               method_def, type_name_from(binary, iter.val, mt.va))
function_flags(binary, definition, entry, offset, flags, method_def, mt) ==
    IF ~mt.some THEN Skipped(definition)
    ELSE IF ~is_entrypoint(flags) THEN Skipped(definition)
    ELSE function_lookup(
            binary, definition, entry, offset, method_def, mt.val,
            type_map_lookup(binary, mt.val.hashcode))
function_entry_type(binary, method_tables, definition, entry, flags, method_def, index) ==
    IF ~index.ok THEN Failed(index.err)
    ELSE function_flags(
            binary, definition, entry, index.off, flags, method_def,
            find_mt(method_tables, fixup_va(binary.fixups.val, index.val)))
function_method(binary, method_tables, definition, entry, offset, flags, method_def) ==
    IF ~method_def.ok THEN Skipped(definition)
    ELSE function_entry_type(binary, method_tables, definition, entry,
                                                 flags, method_def.val, get_unsigned(entry, offset))
function_handle(binary, method_tables, definition, entry, offset, flags, handle) ==
    IF ~handle.ok THEN Failed(handle.err)
    ELSE function_method(
            binary, method_tables, definition, entry, offset, flags,
            to_data(binary.metadata.val, handle.val, MethodFields))
function_raw(binary, method_tables, definition, entry, flags, raw) ==
    IF ~raw.ok THEN Failed(raw.err)
    ELSE function_handle(
            binary, method_tables, definition, entry, raw.off, flags,
            BaseHandle_to_handle(HandleType_Method, BaseHandle_from_raw(BitOr(Shl(HandleType_Method, HANDLE_TYPE_SHIFT), raw.val))))
function_of(binary, method_tables, definition, entry, flags) ==
    IF ~flags.ok THEN Failed(flags.err)
    ELSE function_raw(binary, method_tables, definition, entry,
                                        flags.val, get_unsigned(entry, flags.off))
name_function(binary, method_tables, definition, entry) ==
    function_of(binary, method_tables, definition, entry, get_unsigned(entry, 0))

\* std::process::Termination for Result: the exit code of what main returns
exit_code_zero(result) == 0
exit_code(result) == IF result.ok THEN 0 ELSE 1


(***************************************************************************)
(* The binaries the program is run on.  The metadata stream holds, in      *)
(* slots of MdSlot bytes: the types N1.N2.T and N1.Map<K, V>, a type whose *)
(* name record is outside the stream, the methods Run and Stop, a method   *)
(* whose name record is outside the stream, and one scope definition for   *)
(* each assembly of the image.  Fixup indices 0 .. 6 resolve to the VAs of *)
(* the three method tables, of two functions, to nothing, and to a VA that *)
(* is no method table.                                                     *)
(***************************************************************************)
\* the slot of each record that a handle of the maps or of the header points at
IdaSlotOf ==
    [record \in {"T", "Map", "type with no name", "Run", "Stop", "method with no name",
                 "first scope", "outside"} |->
        CASE record = "T" -> 1 [] record = "Map" -> 3 [] record = "type with no name" -> 10
          [] record = "Run" -> 15 [] record = "Stop" -> 17
          [] record = "method with no name" -> 19 [] record = "first scope" -> 20
          [] record = "outside" -> 100]
IdaTypeT == IdaSlotOf["T"]
IdaTypeMap == IdaSlotOf["Map"]
IdaTypeNoName == IdaSlotOf["type with no name"]
IdaMethodRun == IdaSlotOf["Run"]
IdaMethodStop == IdaSlotOf["Stop"]
IdaMethodNoName == IdaSlotOf["method with no name"]
IdaFirstScope == IdaSlotOf["first scope"]
IdaOutside == IdaSlotOf["outside"]

MdScopeRecord(name) == <<0>> \o EncodeUnsigned(name) \o Zeros(14)

IdaScopeSlots(assemblies) ==
    Flatten([i \in 1 .. Len(assemblies) |->
        <<MdPad(MdScopeRecord(MdAt(IdaFirstScope + 2 * i - 1))),
          MdPad(MdStringRecord(assemblies[i]))>>])

IdaMetadata(assemblies) ==
    Flatten(
        <<MdPad(MdSignatureBytes
                \o MdCollection([i \in 1 .. Len(assemblies) |-> MdAt(IdaFirstScope + 2 * i - 2)])),
          MdPad(MdTypeRecord(MdAt(5), MdAt(2), <<>>)),
          MdPad(MdStringRecord(<<84>>)),
          MdPad(MdTypeRecord(MdAt(7), MdAt(4), <<MdAt(11), MdAt(13)>>)),
          MdPad(MdStringRecord(<<77, 97, 112>>)),
          MdPad(MdNamespaceRecord(MdBaseValue(HandleType_NamespaceDefinition, MdAt(7)), MdAt(6))),
          MdPad(MdStringRecord(<<78, 50>>)),
          MdPad(MdNamespaceRecord(MdBaseValue(HandleType_NamespaceDefinition, MdAt(9)), MdAt(8))),
          MdPad(MdStringRecord(<<78, 49>>)),
          MdPad(MdNamespaceRecord(MdBaseValue(HandleType_ScopeDefinition, MdAt(IdaFirstScope)), 0)),
          MdPad(MdTypeRecord(MdAt(7), MdAt(IdaOutside), <<>>)),
          MdPad(MdGenericRecord(0, MdAt(12))),
          MdPad(MdStringRecord(<<75>>)),
          MdPad(MdGenericRecord(1, MdAt(14))),
          MdPad(MdStringRecord(<<86>>)),
          MdPad(MdMethodRecord(MdAt(16))),
          MdPad(MdStringRecord(<<82, 117, 110>>)),
          MdPad(MdMethodRecord(MdAt(18))),
          MdPad(MdStringRecord(<<83, 116, 111, 112>>)),
          MdPad(MdMethodRecord(MdAt(IdaOutside)))>>
        \o IdaScopeSlots(assemblies))

\* the method tables that scan_method_tables returns: of T and of Map, with one
\* hashcode, and one that the TypeMap does not name
IdaMt(va, hashcode, element_type, vtables, ifaces) ==
    [va |-> va, hashcode |-> hashcode, element_type |-> element_type,
     vtables |-> vtables, ifaces |-> ifaces]
IdaVaOf ==
    [ref \in {"T", "Map", "X", "Run", "Stop", "other"} |->
        CASE ref = "T" -> 4160 [] ref = "Map" -> 4216 [] ref = "X" -> 43981
          [] ref = "Run" -> 8192 [] ref = "Stop" -> 8200 [] ref = "other" -> 5000]
IdaHashcodeOf == [mt \in {"T", "Map", "X"} |-> IF mt = "X" THEN 9 ELSE 7]
IdaVaT == IdaVaOf["T"]
IdaVaMap == IdaVaOf["Map"]
IdaVaX == IdaVaOf["X"]
IdaVaRun == IdaVaOf["Run"]
IdaVaStop == IdaVaOf["Stop"]
IdaVaOther == IdaVaOf["other"]
IdaHashcode == IdaHashcodeOf["T"]
IdaMethodTables ==
    <<IdaMt(IdaVaT, IdaHashcodeOf["T"], ElementType_Class, 3, 1),
      IdaMt(IdaVaMap, IdaHashcodeOf["Map"], ElementType_Class, 4, 0),
      IdaMt(IdaVaX, IdaHashcodeOf["X"], ElementType_Interface, 0, 0)>>

IdaFixups ==
    <<Some(IdaVaT), Some(IdaVaMap), Some(IdaVaX), Some(IdaVaRun), Some(IdaVaStop), None,
      Some(IdaVaOther)>>
IdaFixupOf ==
    [ref \in {"T", "Map", "X", "Run", "Stop", "unresolved", "other"} |->
        CASE ref = "T" -> 0 [] ref = "Map" -> 1 [] ref = "X" -> 2 [] ref = "Run" -> 3
          [] ref = "Stop" -> 4 [] ref = "unresolved" -> 5 [] ref = "other" -> 6]

\* the fields of an entry, the first `cut` of them
IdaFieldsCut(fields, cut) ==
    Flatten([i \in 1 .. (IF cut < Len(fields) THEN cut ELSE Len(fields)) |->
                EncodeUnsigned(fields[i])])

\* A TypeMap entry: the fixup index of an MT and a raw handle.  handle is "T"
\* or "Map" (a TypeDefinition handle of that type), "null" (the offset of T
\* under the kind Null), "method" (a handle of kind Method), "outside" (a
\* TypeDefinition handle to outside the stream), "noname" (the type whose name
\* is outside the stream); cut is how many of the two fields the payload has.
IdaTypeEntry(mt, handle, cut) == [mt |-> mt, handle |-> handle, cut |-> cut]
IdaTypeHandle(handle) ==
    CASE handle = "T" -> Shl(HandleType_TypeDefinition, HANDLE_TYPE_SHIFT) + MdAt(IdaTypeT)
      [] handle = "Map" -> Shl(HandleType_TypeDefinition, HANDLE_TYPE_SHIFT) + MdAt(IdaTypeMap)
      [] handle = "null" -> MdAt(IdaTypeT)
      [] handle = "method" -> Shl(HandleType_Method, HANDLE_TYPE_SHIFT) + MdAt(IdaMethodRun)
      [] handle = "outside" -> Shl(HandleType_TypeDefinition, HANDLE_TYPE_SHIFT) + MdAt(IdaOutside)
      [] handle = "noname" -> Shl(HandleType_TypeDefinition, HANDLE_TYPE_SHIFT) + MdAt(IdaTypeNoName)
IdaTypeEntryBytes(e) ==
    IdaFieldsCut(<<IdaFixupOf[e.mt], IdaTypeHandle(e.handle)>>, e.cut)
IdaTypeEntries ==
    { IdaTypeEntry("T", "T", 2), IdaTypeEntry("Map", "Map", 2), IdaTypeEntry("T", "Map", 2),
      IdaTypeEntry("T", "null", 2), IdaTypeEntry("unresolved", "T", 2),
      IdaTypeEntry("T", "method", 2), IdaTypeEntry("T", "outside", 2),
      IdaTypeEntry("T", "noname", 2), IdaTypeEntry("T", "T", 0), IdaTypeEntry("T", "T", 1) }

\* An InvokeMap entry: flags, the offset of a method handle, the fixup index of
\* the entry type's MT and the fixup index of the entrypoint.  method is "Run"
\* or "Stop", "outside" (no record there), "noname" (the method whose name is
\* outside the stream) or "kind" (a value with the bits of another kind); cut is
\* how many of the four fields the payload has.
IdaInvokeEntry(flags, method, type, entrypoint, cut) ==
    [flags |-> flags, method |-> method, type |-> type, entrypoint |-> entrypoint, cut |-> cut]
IdaMethodValue(method) ==
    CASE method = "Run" -> MdAt(IdaMethodRun)
      [] method = "Stop" -> MdAt(IdaMethodStop)
      [] method = "outside" -> MdAt(IdaOutside)
      [] method = "noname" -> MdAt(IdaMethodNoName)
      [] method = "kind" -> Shl(HandleType_TypeDefinition, HANDLE_TYPE_SHIFT) + MdAt(IdaMethodRun)
IdaInvokeEntryBytes(e) ==
    IdaFieldsCut(<<e.flags, IdaMethodValue(e.method), IdaFixupOf[e.type],
                   IdaFixupOf[e.entrypoint]>>, e.cut)
IdaInvokeEntries ==
    { IdaInvokeEntry(32, "Run", "T", "Run", 4), IdaInvokeEntry(33, "Stop", "Map", "Stop", 4),
      IdaInvokeEntry(0, "Run", "T", "Run", 4), IdaInvokeEntry(31, "Stop", "T", "Stop", 4),
      IdaInvokeEntry(32, "Run", "X", "Run", 4), IdaInvokeEntry(32, "Run", "unresolved", "Run", 4),
      IdaInvokeEntry(32, "Run", "other", "Run", 4),
      IdaInvokeEntry(32, "Run", "T", "unresolved", 4),
      IdaInvokeEntry(32, "outside", "T", "Run", 4), IdaInvokeEntry(32, "kind", "T", "Run", 4),
      IdaInvokeEntry(32, "noname", "T", "Run", 4), IdaInvokeEntry(32, "Run", "T", "Run", 0),
      IdaInvokeEntry(32, "Run", "T", "Run", 1), IdaInvokeEntry(32, "Run", "T", "Run", 2),
      IdaInvokeEntry(32, "Run", "T", "Run", 3), IdaInvokeEntry(0, "Run", "T", "Run", 3) }

IdaMaxEntries == 2
IdaSeqs(S) == UNION {[1 .. n -> S] : n \in 0 .. IdaMaxEntries}

\* the assemblies of an image: the required ones and one more; one of the
\* required ones left out; the required ones in another order
IdaOther == <<83, 121, 115, 116, 101, 109, 46, 80, 114, 105, 118, 97, 116, 101, 46, 67, 111, 114, 101, 76, 105, 98>>
IdaWithout(s, i) == [k \in 1 .. Len(s) - 1 |-> IF k < i THEN s[k] ELSE s[k + 1]]
IdaAssemblies ==
    {Append(REQUIRED_ASSEMBLIES, IdaOther), <<IdaOther>> \o Reverse(REQUIRED_ASSEMBLIES)}
        \cup {Append(IdaWithout(REQUIRED_ASSEMBLIES, i), IdaOther) :
                i \in 1 .. Len(REQUIRED_ASSEMBLIES)}
        \cup {<<>>}

\* A run: do the arguments parse; is the file read, is it a PE, has it an RTR
\* header (else which step of main fails); which blobs the header lacks; the
\* metadata stream ("ok", "signature": other first bytes, "short": nothing
\* after the signature); the assemblies; the entries of the TypeMap bucket and
\* of the InvokeMap, or that lookup or enumerate_all fails; is the MT
\* root located; can the output file be written.
IdaRun(args, load, lacks, stream, assemblies, types, invokes, scan, writable) ==
    [args |-> args, load |-> load, lacks |-> lacks, stream |-> stream,
     assemblies |-> assemblies, types |-> types, invokes |-> invokes, scan |-> scan,
     writable |-> writable]

IdaYields(entries) == [fails |-> FALSE, entries |-> entries]
IdaFails == [fails |-> TRUE, entries |-> <<>>]
IdaBaseTypes == IdaYields(<<IdaTypeEntry("T", "T", 2), IdaTypeEntry("Map", "Map", 2)>>)
IdaBaseInvokes ==
    IdaYields(<<IdaInvokeEntry(32, "Run", "T", "Run", 4),
                IdaInvokeEntry(33, "Stop", "Map", "Stop", 4)>>)
IdaBaseAssemblies == Append(REQUIRED_ASSEMBLIES, IdaOther)
IdaBaseRun ==
    IdaRun(TRUE, "ok", "none", "ok", IdaBaseAssemblies, IdaBaseTypes, IdaBaseInvokes, TRUE, TRUE)

\* the entries a run has: every sequence of up to IdaMaxEntries of a few of
\* them, and each of the others alone, before and after one that names
IdaTypeSeqs ==
    IdaSeqs({IdaTypeEntry("T", "T", 2), IdaTypeEntry("Map", "Map", 2),
             IdaTypeEntry("T", "Map", 2), IdaTypeEntry("T", "T", 0)})
    \cup UNION {{<<e>>, <<e, IdaTypeEntry("T", "T", 2)>>, <<IdaTypeEntry("T", "T", 2), e>>,
                 <<e, IdaTypeEntry("Map", "Map", 2)>>} : e \in IdaTypeEntries}
IdaInvokeSeqs ==
    IdaSeqs({IdaInvokeEntry(32, "Run", "T", "Run", 4), IdaInvokeEntry(33, "Stop", "Map", "Stop", 4),
             IdaInvokeEntry(0, "Run", "T", "Run", 4), IdaInvokeEntry(32, "kind", "T", "Run", 4),
             IdaInvokeEntry(32, "Run", "X", "Run", 4)})
    \cup UNION {{<<e>>, <<e, IdaInvokeEntry(32, "Run", "T", "Run", 4)>>,
                 <<IdaInvokeEntry(32, "Run", "T", "Run", 4), e>>} : e \in IdaInvokeEntries}

IdaRuns ==
    {[IdaBaseRun EXCEPT !.types = IdaYields(t)] : t \in IdaTypeSeqs}
    \cup {[IdaBaseRun EXCEPT !.invokes = IdaYields(v)] : v \in IdaInvokeSeqs}
    \cup {[IdaBaseRun EXCEPT !.types = IdaFails], [IdaBaseRun EXCEPT !.invokes = IdaFails]}
    \cup {[IdaBaseRun EXCEPT !.assemblies = a] : a \in IdaAssemblies}
    \cup {[IdaBaseRun EXCEPT !.load = l] : l \in {"unreadable", "not a PE", "no RTR header"}}
    \cup {[IdaBaseRun EXCEPT !.lacks = b] :
            b \in {"metadata", "fixups", "TypeMap", "InvokeMap"}}
    \cup {[IdaBaseRun EXCEPT !.stream = s, !.assemblies = a] :
            s \in {"signature", "short"}, a \in IdaAssemblies}
    \cup {[IdaBaseRun EXCEPT !.args = FALSE], [IdaBaseRun EXCEPT !.scan = FALSE],
          [IdaBaseRun EXCEPT !.writable = FALSE]}

IdaBaseStream == IdaMetadata(IdaBaseAssemblies)
IdaStreamOf(assemblies) ==
    IF assemblies = IdaBaseAssemblies THEN IdaBaseStream ELSE IdaMetadata(assemblies)
IdaStream(run) ==
    CASE run.stream = "ok" -> IdaStreamOf(run.assemblies)
      [] run.stream = "signature" -> <<0>> \o Tail(IdaStreamOf(run.assemblies))
      [] run.stream = "short" -> MdSignatureBytes

IdaEntriesOf(entries, Bytes(_)) ==
    IF entries.fails THEN BadImage(0)
    ELSE Ok([i \in 1 .. Len(entries.entries) |-> Bytes(entries.entries[i])], 0)

\* the NativeAotBinary of a run
IdaBinary(run) ==
    [metadata |-> IF run.lacks = "metadata" THEN None ELSE Some(IdaStream(run)),
     fixups |-> IF run.lacks = "fixups" THEN None ELSE Some(IdaFixups),
     type_map |-> IF run.lacks = "TypeMap" THEN None
                  ELSE Some(IdaHashcode :> IdaEntriesOf(run.types, IdaTypeEntryBytes)),
     invoke_map |-> IF run.lacks = "InvokeMap" THEN None
                    ELSE Some(IdaEntriesOf(run.invokes, IdaInvokeEntryBytes))]

IdaInit ==
    /\ \E run \in IdaRuns :
          ida = [pc |-> "args", run |-> run,
                 stderr |-> <<>>, exit |-> -1, file |-> None, scanned |-> FALSE,
                 result |-> GoesOn, method_tables |-> <<>>,
                 definition |-> HytaleDefinition_default, entries |-> <<>>, i |-> 0]
    /\ cdc = CodecIdle /\ rt = RtIdle /\ ht = HtIdle /\ sc = ScIdle /\ hd = HdIdle /\ tg = TgIdle /\ ld = LdIdle /\ md = MdIdle

\* main.rs:54: Args::parse() ends the process with a usage error when the
\* arguments do not parse
ParseArgs ==
    /\ ida.pc = "args"
    /\ ida' = IF ida.run.args THEN [ida EXCEPT !.pc = "load"]
              ELSE [ida EXCEPT !.pc = "exited", !.exit = 2,
                               !.stderr = Append(@, [text |-> "usage"])]

\* main.rs:57-59: the `?` of fs::read, PeFile::from_bytes and load_pe return the
\* error from main, which the runtime prints before it ends the process
LoadFile ==
    /\ ida.pc = "load"
    /\ ida' = IF ida.run.load = "ok" THEN [ida EXCEPT !.pc = "gate"]
              ELSE [ida EXCEPT !.pc = "exited", !.exit = exit_code(Failed(ida.run.load)),
                               !.stderr = Append(@, [text |-> "Error", why |-> ida.run.load])]

\* main.rs:295-345
DumpIdaGate ==
    /\ ida.pc = "gate"
    /\ ida' = With(dump_ida_gate(With(ida.run, IdaBinary)), LAMBDA gate :
                  IF gate.returns
                  THEN [ida EXCEPT !.pc = "return", !.result = gate,
                                   !.stderr = Append(@, gate.line)]
                  ELSE [ida EXCEPT !.pc = "scan"])

\* main.rs:348: pe.scan_method_tables()?, and 350
DumpIdaScan ==
    /\ ida.pc = "scan"
    /\ ida' = IF ~ida.run.scan
              THEN [ida EXCEPT !.pc = "return", !.scanned = TRUE,
                               !.result = Failed("object MT not found")]
              ELSE [ida EXCEPT !.pc = "method tables", !.scanned = TRUE,
                               !.method_tables = IdaMethodTables, !.i = 1]

\* main.rs:353-390: the next method table
DumpIdaNameMt ==
    /\ ida.pc = "method tables" /\ ida.i <= Len(ida.method_tables)
    /\ ida' = With(name_mt(With(ida.run, IdaBinary), ida.definition,
                           ida.method_tables[ida.i]), LAMBDA named :
                  IF named.returns THEN [ida EXCEPT !.pc = "return", !.result = named]
                  ELSE [ida EXCEPT !.definition = named.definition, !.i = ida.i + 1])

\* main.rs:393: invoke_map.enumerate_all()?
DumpIdaEnumerate ==
    /\ ida.pc = "method tables" /\ ida.i > Len(ida.method_tables)
    /\ ida' = With(IdaBinary(ida.run).invoke_map.val, LAMBDA entries :
                  IF ~entries.ok THEN [ida EXCEPT !.pc = "return", !.result = Failed(entries.err)]
                  ELSE [ida EXCEPT !.pc = "functions", !.entries = entries.val, !.i = 1])

\* main.rs:393-452: the next entry of the InvokeMap
DumpIdaNameFunction ==
    /\ ida.pc = "functions" /\ ida.i <= Len(ida.entries)
    /\ ida' = With(name_function(With(ida.run, IdaBinary), ida.method_tables, ida.definition,
                                 ida.entries[ida.i]), LAMBDA named :
                  IF named.returns THEN [ida EXCEPT !.pc = "return", !.result = named]
                  ELSE [ida EXCEPT !.definition = named.definition, !.i = ida.i + 1])

\* main.rs:455-459
DumpIdaWrite ==
    /\ ida.pc = "functions" /\ ida.i > Len(ida.entries)
    /\ ida' = IF ~ida.run.writable
              THEN [ida EXCEPT !.pc = "return", !.result = Failed("write")]
              ELSE [ida EXCEPT !.pc = "return", !.file = Some(ida.definition),
                               !.result = Returned([text |-> "Definition written"]),
                               !.stderr = Append(@, [text |-> "Definition written"])]

\* main.rs:61-70: the error of the subcommand is printed, and main returns Ok(())
MainReturn ==
    /\ ida.pc = "return"
    /\ ida' = [ida EXCEPT !.pc = "exited", !.exit = exit_code(Returned(<<>>)),
                          !.stderr = IF ida.result.ok THEN @
                                     ELSE Append(@, [text |-> "Error", why |-> ida.result.err])]

IdaNext ==
    /\ \/ ParseArgs
       \/ LoadFile
       \/ DumpIdaGate
       \/ DumpIdaScan
       \/ DumpIdaNameMt
       \/ DumpIdaEnumerate
       \/ DumpIdaNameFunction
       \/ DumpIdaWrite
       \/ MainReturn
    /\ UNCHANGED <<cdc, rt, ht, sc, hd, tg, ld, md>>

SpecIda == IdaInit /\ [][IdaNext]_vars


\* what the images hold, written out: the names of the two types, the parts of
\* the name of each MT's struct when an entry names it and when none does, and
\* the normalized names of the functions
C14_NamedParts ==
    [handle \in {"T", "Map", "null"} |->
        IF handle = "Map" THEN <<<<78, 49>>, <<77, 97, 112, 60, 75, 44, 32, 86, 62, 95, 118, 116, 98, 108>>>>
        ELSE <<<<78, 49>>, <<78, 50>>, <<84, 95, 118, 116, 98, 108>>>>]
C14_FallbackParts ==
    [mt \in {"T", "Map", "X"} |->
        CASE mt = "T" -> <<<<67, 108, 97, 115, 115, 95, 49, 48, 52, 48, 95, 118, 116, 98, 108>>>>
          [] mt = "Map" -> <<<<67, 108, 97, 115, 115, 95, 49, 48, 55, 56, 95, 118, 116, 98, 108>>>>
          [] mt = "X" -> <<<<73, 110, 116, 101, 114, 102, 97, 99, 101, 95, 97, 98, 99, 100, 95, 118, 116, 98, 108>>>>]
C14_Scanned ==
    <<[mt |-> "T", address |-> 4160, vtables |-> 3, ifaces |-> 1],
      [mt |-> "Map", address |-> 4216, vtables |-> 4, ifaces |-> 0],
      [mt |-> "X", address |-> 43981, vtables |-> 0, ifaces |-> 0]>>

\* does the TypeMap entry e name the MT: its fixup index resolves to the MT's VA
\* and its handle decodes to a TypeDefinition record with a name
C14_Names(e, mt) == e.cut = 2 /\ e.mt = mt /\ e.handle \in {"T", "Map", "null"}

\* the first entry of the lookup that names the MT, if any
C14_FirstNaming(types, mt) ==
    IF types.fails \/ mt = "X" \/ ~\E k \in 1 .. Len(types.entries) : C14_Names(types.entries[k], mt)
    THEN None
    ELSE Some(types.entries[CHOOSE k \in 1 .. Len(types.entries) :
                  /\ C14_Names(types.entries[k], mt)
                  /\ \A j \in 1 .. k - 1 : ~C14_Names(types.entries[j], mt)])

C14_StructOf(types, m) ==
    [name |-> IF C14_FirstNaming(types, m.mt).some
              THEN C14_NamedParts[C14_FirstNaming(types, m.mt).val.handle]
              ELSE C14_FallbackParts[m.mt],
     vtables |-> m.vtables, ifaces |-> m.ifaces, address |-> m.address]

C14_Structs(types) == [k \in 1 .. Len(C14_Scanned) |-> C14_StructOf(types, C14_Scanned[k])]

\* C14: once dump-ida has scanned the method tables it emits, for every MT, one
\* mt_struct at the MT's VA with its slot counts, named from the first TypeMap
\* entry that resolves to the MT and decodes to a TypeDefinition record, and by
\* the fallback name when there is none
C14_MtStructs ==
    (ida.pc = "exited" /\ ida.scanned /\ ida.run.scan)
        => ida.definition.mt_structs = C14_Structs(ida.run.types)

\* C14 (the part that holds): when the loop over the method tables comes to its
\* end, the mt_structs are those
C14_MtStructsAtLoopEnd ==
    ida.pc = "functions" => ida.definition.mt_structs = C14_Structs(ida.run.types)

C15_Names ==
    [type \in {"T", "Map", "null"}, method \in {"Run", "Stop"} |->
        IF type = "Map"
        THEN IF method = "Run" THEN <<78, 49, 95, 77, 97, 112, 60, 75, 44, 32, 86, 62, 95, 82, 117, 110>> ELSE <<78, 49, 95, 77, 97, 112, 60, 75, 44, 32, 86, 62, 95, 83, 116, 111, 112>>
        ELSE IF method = "Run" THEN <<78, 49, 95, 78, 50, 95, 84, 95, 82, 117, 110>> ELSE <<78, 49, 95, 78, 50, 95, 84, 95, 83, 116, 111, 112>>]
C15_Addresses == [entrypoint \in {"Run", "Stop"} |-> IF entrypoint = "Run" THEN 8192 ELSE 8200]

\* bit 5 of the flags of the entry is set
C15_Bit5(e) == (e.flags \div 32) % 2 = 1

\* the entry is one that a function is emitted for
C15_Emits(types, e) ==
    /\ e.cut = 4 /\ C15_Bit5(e)
    /\ e.method \in {"Run", "Stop"}
    /\ e.type \in {"T", "Map"} /\ C14_FirstNaming(types, e.type).some
    /\ e.entrypoint \in {"Run", "Stop"}

RECURSIVE C15_FunctionsOf(_, _)
C15_FunctionsOf(types, entries) ==
    IF entries = <<>> THEN <<>>
    ELSE (IF C15_Emits(types, Head(entries))
          THEN <<[name |-> C15_Names[C14_FirstNaming(types, Head(entries).type).val.handle,
                                     Head(entries).method],
                  address |-> C15_Addresses[Head(entries).entrypoint]]>>
          ELSE <<>>) \o C15_FunctionsOf(types, Tail(entries))

\* the InvokeMap entries that the loop has gone through
C15_Processed ==
    IF ida.entries = <<>> THEN <<>> ELSE SubSeq(ida.run.invokes.entries, 1, ida.i - 1)

\* C15: the functions emitted are, in order, those of the InvokeMap entries gone
\* through whose flags have bit 5 set, whose entry-type fixup resolves to a
\* scanned MT that the TypeMap names, whose method record and name decode and
\* whose entrypoint fixup resolves: each at the VA of the entrypoint fixup and
\* named '<type name>.<method name>' normalized; none is emitted for an entry
\* with flags & 32 = 0; and the file written holds exactly those
C15_Functions ==
    /\ ida.definition.functions = C15_FunctionsOf(ida.run.types, C15_Processed)
    /\ \A k \in 1 .. Len(C15_Processed) :
          ~C15_Bit5(C15_Processed[k]) =>
              C15_FunctionsOf(ida.run.types, SubSeq(C15_Processed, 1, k))
                  = C15_FunctionsOf(ida.run.types, SubSeq(C15_Processed, 1, k - 1))
    /\ ida.file.some => ida.file.val.functions = ida.definition.functions

\* an entry with flags 0 was passed over and the next one, with flags 32, gave
\* the function N1_N2_T_Run at the VA of its entrypoint fixup, in the file
C15_Witness ==
    /\ ida.pc = "exited" /\ ida.file.some
    /\ ida.run.invokes.entries
          = <<IdaInvokeEntry(0, "Run", "T", "Run", 4), IdaInvokeEntry(32, "Run", "T", "Run", 4)>>
    /\ ida.file.val.functions = <<[name |-> <<78, 49, 95, 78, 50, 95, 84, 95, 82, 117, 110>>, address |-> 8192]>>

\* the required assemblies that the image has no scope definition for
C16_Missing ==
    {k \in 1 .. Len(REQUIRED_ASSEMBLIES) :
        \A j \in 1 .. Len(ida.run.assemblies) : ida.run.assemblies[j] # REQUIRED_ASSEMBLIES[k]}

\* dump-ida has read the names of the scope definitions
C16_ScopesRead ==
    /\ ida.run.args /\ ida.run.load = "ok"
    /\ ida.run.lacks # "metadata" /\ ida.run.stream = "ok"
    /\ ida.pc \notin {"args", "load", "gate"}

\* C16: the file is written only when every required assembly is among the
\* scope definitions; when one is missing, dump-ida prints the diagnostic that
\* names it and returns without the method-table scan and without the file
C16_RequiredAssemblies ==
    /\ (ida.file.some \/ ida.scanned) => C16_Missing = {}
    /\ (C16_ScopesRead /\ C16_Missing # {}) =>
          /\ ida.pc \in {"return", "exited"}
          /\ ida.result = Returned(ida.stderr[1])
          /\ ida.stderr = <<[text |-> "Assembly is missing from target binary",
                             assembly |-> REQUIRED_ASSEMBLIES[CHOOSE k \in C16_Missing :
                                              \A j \in C16_Missing : k <= j]]>>
          /\ ~ida.scanned /\ ~ida.file.some

\* an image with every required assembly but Hytale.Protocol.Runtime: the
\* program has ended after the diagnostic, with no scan and no file
C16_Witness ==
    /\ ida.pc = "exited" /\ C16_ScopesRead /\ C16_Missing = {3}
    /\ ida.stderr[1].assembly = REQUIRED_ASSEMBLIES[3]
    /\ ~ida.scanned /\ ~ida.file.some

\* the fatal conditions: no RTR header, a blob of the four that is missing, the
\* MT root not located
C17_Fatal ==
    /\ ida.run.args
    /\ \/ ida.run.load = "no RTR header"
       \/ ida.run.load = "ok" /\ ida.run.lacks # "none"
       \/ ida.run.load = "ok" /\ ida.run.lacks = "none" /\ ida.run.stream = "ok"
            /\ C16_Missing = {} /\ ~ida.run.scan

\* C17: on every fatal condition the program prints a diagnostic on standard
\* error, abandons the subcommand and exits with code 0; only a failure to parse
\* the arguments gives another exit code
C17_ExitsZero ==
    ida.pc = "exited" =>
        /\ C17_Fatal => (ida.stderr # <<>> /\ ~ida.file.some /\ ida.exit = 0)
        /\ ida.exit # 0 => ~ida.run.args

\* C17 (the part that holds): a fatal condition met inside the subcommand ends
\* with a diagnostic, no file and exit code 0; one met while the file is loaded
\* ends with a diagnostic, no file and exit code 1
C17_ExitCodes ==
    ida.pc = "exited" =>
        /\ C17_Fatal => (ida.stderr # <<>> /\ ~ida.file.some)
        /\ ida.exit = (IF ~ida.run.args THEN 2 ELSE IF ida.run.load # "ok" THEN 1 ELSE 0)

\* the passes were reached and the file can be written
C18_Reconstructs ==
    /\ ida.pc = "exited" /\ ida.scanned /\ ida.run.scan
    /\ ~ida.run.invokes.fails /\ ida.run.writable

\* C18: an entry of the TypeMap or of the InvokeMap that fails to decode is
\* passed over: the file is written, with the struct of every MT and the
\* function of every entry that decodes
C18_PartialListing ==
    C18_Reconstructs =>
        /\ ida.file.some
        /\ ida.file.val.mt_structs = C14_Structs(ida.run.types)
        /\ ida.file.val.functions = C15_FunctionsOf(ida.run.types, ida.run.invokes.entries)

\* C18 (the part that holds): the failures that are passed over are a fixup
\* index that does not resolve, a TypeDefinition handle of another kind or with
\* no record, and a method handle with no record
C18_Passes(e) == e.cut = 4 /\ e.method \in {"Run", "Stop", "outside"}
C18_TypePasses(e) == e.cut = 2 /\ e.handle # "noname"
C18_PassedOver ==
    (/\ C18_Reconstructs
     /\ \A k \in 1 .. Len(ida.run.invokes.entries) : C18_Passes(ida.run.invokes.entries[k])
     /\ ida.run.types.fails
            \/ \A k \in 1 .. Len(ida.run.types.entries) : C18_TypePasses(ida.run.types.entries[k]))
        => /\ ida.file.some
           /\ ida.file.val.mt_structs = C14_Structs(ida.run.types)
           /\ ida.file.val.functions = C15_FunctionsOf(ida.run.types, ida.run.invokes.entries)


\* a call on the whole encoding of an integer, which has returned
C25_WholeInteger == cdc.done /\ cdc.how = "whole" /\ cdc.kind \in {"u32", "i32", "u64"}

\* C25: on a well-formed integer encoding of every width, decode_unsigned,
\* decode_signed and skip_integer leave the caller's offset exactly behind the
\* encoding, and the long decoders leave it 9 bytes on for the 64-bit form
C25_OffsetAdvance ==
    C25_WholeInteger =>
        /\ cdc.res.ok
        /\ cdc.res.off = cdc.offset + cdc.enc_len
        /\ cdc.kind = "u64" => cdc.enc_len = 9

\* C25 (the part that holds): the 1-, 2-, 3- and 4-byte forms are left behind
\* exactly by every decoder, and skip_integer leaves every form behind exactly;
\* on the 5-byte form and on the 64-bit form the decoders leave the offset one
\* byte after where the encoding starts
C25_ShortFormsAdvance ==
    C25_WholeInteger =>
        /\ cdc.res.ok
        /\ cdc.res.off = cdc.offset + (IF cdc.op = "skip_integer" \/ cdc.enc_len <= 4
                                       THEN cdc.enc_len ELSE 1)
        /\ cdc.enc_len \in (IF cdc.kind = "u64" THEN {9} ELSE 1 .. 5)


\* C26: get_va_from_index returns a VA only for an index whose slot lies inside
\* the size bytes of the table (index < size / 4); for every other index, the
\* index size / 4 included, it returns None
C26_InsideTable ==
    rt.done => (rt.res.some => rt.index < rt.table.count)

\* C26 (the part that holds): a VA is returned for every index below size / 4
\* and for no index above it; at the index size / 4 itself a VA is returned
\* exactly when the image holds 4 bytes behind the table
C26_UpToCount ==
    rt.done =>
        /\ rt.index < rt.table.count /\ RtSlotReadable => rt.res.some
        /\ rt.index > rt.table.count => ~rt.res.some
        /\ rt.index = rt.table.count => (rt.res.some <=> RtSlotReadable)


\* get_full_name has been called on a type whose namespace chain gives no name
C27_Unnamed == md.pc \in {"generics", "done"} /\ md.spec.names = <<>>

\* C27: for a type whose namespace chain gives no named segment, get_full_name
\* returns exactly the type's own name: no '.' in front and, split on '.' as
\* create_mt_struct splits it, no empty segment
C27_OwnName ==
    C27_Unnamed =>
        /\ md.res.ok
        /\ md.res.val = md.spec.type_name
        /\ \A k \in 1 .. Len(Split(md.res.val, Period, <<>>)) :
              Split(md.res.val, Period, <<>>)[k] # <<>>

\* C27 (what the code returns): '.' and the type's name when the type is in the
\* namespace with the nil name, whose first segment is empty when split; and an
\* error when the namespace handle of the type is nil, the record at offset 0
\* of these streams (the signature) being read as a namespace
C27_LeadingDot ==
    C27_Unnamed =>
        IF md.spec.root = "nil"
        THEN /\ md.res.ok /\ md.res.val = Dot \o md.spec.type_name
             /\ Split(md.res.val, Period, <<>>) = <<<<>>, md.spec.type_name>>
        ELSE ~md.res.ok


(***************************************************************************)
(* NativeHashtable::new on every header byte: the parser stands at the     *)
(* header, HtHeaderPrefix bytes into the slice or at its start, in a build *)
(* with or without overflow checks.                                        *)
(***************************************************************************)
HtHeaderPrefix == 3

HtHeaderInit ==
    /\ \E header \in Byte, offset \in {0, HtHeaderPrefix}, overflow_checks \in BOOLEAN :
        ht = [pc |-> "header", header |-> header, data |-> Zeros(offset) \o <<header>>,
              offset |-> offset, overflow_checks |-> overflow_checks, res |-> <<>>]
    /\ cdc = CodecIdle /\ rt = RtIdle /\ sc = ScIdle /\ hd = HdIdle /\ tg = TgIdle
    /\ ld = LdIdle /\ md = MdIdle /\ ida = IdaIdle

\* NativeHashtable::new on a parser at the header byte
HashtableNewOnHeader ==
    /\ ht.pc = "header"
    /\ ht' = [ht EXCEPT !.pc = "returned",
                        !.res = NativeHashtable_new(ht.data, ht.offset, ht.overflow_checks)]
    /\ UNCHANGED <<cdc, rt, sc, hd, tg, ld, md, ida>>

HtHeaderNext == HashtableNewOnHeader

SpecHashNew == HtHeaderInit /\ [][HtHeaderNext]_vars

\* 2^shift - 1 for 0 <= shift <= 31
C23_Mask(shift) == IF shift = 0 THEN 0 ELSE (Pow2(shift - 1) - 1) + Pow2(shift - 1)
C23_Shift == ht.header \div 4
C23_IndexSize == ht.header % 4
C23_Built(shift) ==
    /\ ht.res.ok
    /\ ht.res.val = [base_offset |-> ht.offset + 1, bucket_mask |-> C23_Mask(shift),
                     entry_index_size |-> C23_IndexSize]

\* C23: NativeHashtable::new succeeds exactly for the header bytes with
\* (header & 3) <= 2 and (header >> 2) <= 31, and fails with BadImage for every
\* other; on success entry_index_size = header & 3, the base offset is just
\* behind the header byte and bucket_mask = 2^(header >> 2) - 1, for shift 31 too
C23_New ==
    ht.pc = "returned" =>
        IF C23_IndexSize <= 2 /\ C23_Shift <= 31
        THEN C23_Built(C23_Shift)
        ELSE ~ht.res.ok /\ ht.res.err = "BadImage"

\* C23 (the part that holds): so it is for every header byte in a build without
\* overflow checks, and for every header byte with a shift other than 31 in a
\* build with them
C23_NewWithoutOverflow ==
    (ht.pc = "returned" /\ ~(ht.overflow_checks /\ C23_Shift = 31 /\ C23_IndexSize <= 2)) =>
        IF C23_IndexSize <= 2 /\ C23_Shift <= 31
        THEN C23_Built(C23_Shift)
        ELSE ~ht.res.ok /\ ht.res.err = "BadImage"

\* what a build with overflow checks does on shift 31: it panics
C23_Shift31Panics ==
    (ht.pc = "returned" /\ ht.overflow_checks /\ C23_Shift = 31 /\ C23_IndexSize <= 2) =>
        (~ht.res.ok /\ ht.res.err = "panic")

(***************************************************************************)
(* MethodTable::parse on single records.  A record is laid out at the      *)
(* start of the one section of an image: the six header fields, then the   *)
(* slots the file holds, slot i carrying the VA PrSlotVa(i).  The counts   *)
(* are tried on a class of base size 16; element-type bits, base size and  *)
(* related type are tried with up to PrMaxSlots slots of each kind; the    *)
(* file holds all the declared slots or ends PrCut slots early.  A record  *)
(* that declares 999 slots or more is followed by PrHeld slots at most.    *)
(***************************************************************************)
PrMaxSlots == 1
PrCut == 1
PrHeld == 2
PrImageBase == 16 * 256
PrSectionRva == 2 * 256
PrRelatedVa == 4660
PrHashcode == 7
PrCounts == {0, 1, 999, 1000, 32767, 32768, 65535}
PrEtypeBits == 0 .. 31
PrBaseSizes == {0, 8, 15, 16, 24}
PrSlotVa(i) == 4096 + i

PrRecord(etype, base_size, related, vtable_count, iface_count, held) ==
    [etype |-> etype, base_size |-> base_size, related |-> related,
     vtable_count |-> vtable_count, iface_count |-> iface_count, held |-> held]

PrRecords ==
    {PrRecord(ElementType_Class, 16, 0, v, i, h) :
        v \in PrCounts, i \in PrCounts, h \in 0 .. PrHeld}
    \cup {PrRecord(e, b, r, v, i, (v + i) - c) :
            e \in PrEtypeBits, b \in PrBaseSizes, r \in {0, PrRelatedVa},
            v \in 0 .. PrMaxSlots, i \in 0 .. PrMaxSlots, c \in {0, PrCut}}

PrBytes(rec) ==
    LeBytes(Shl(rec.etype, ELEMENT_TYPE_SHIFT), 4) \o LeBytes(rec.base_size, 4)
        \o LeBytes(rec.related, 8)
        \o LeBytes(rec.vtable_count, 2) \o LeBytes(rec.iface_count, 2)
        \o LeBytes(PrHashcode, 4)
        \o Flatten([i \in 1 .. rec.held |-> LeBytes(PrSlotVa(i), 8)])

PrImage(rec) ==
    LET file == PrBytes(rec)
    IN  [ImageBase |-> PrImageBase, SizeOfImage |-> PrSectionRva + Len(file),
         sections |-> <<[name |-> ".rdata", VirtualAddress |-> PrSectionRva,
                         VirtualSize |-> Len(file), PointerToRawData |-> 0,
                         SizeOfRawData |-> Len(file)]>>,
         file |-> file]

ParseInit ==
    /\ \E rec \in PrRecords :
        /\ rec.held >= 0
        /\ sc = [pc |-> "record", rec |-> rec, res |-> <<>>]
    /\ cdc = CodecIdle /\ rt = RtIdle /\ ht = HtIdle /\ hd = HdIdle /\ tg = TgIdle
    /\ ld = LdIdle /\ md = MdIdle /\ ida = IdaIdle

\* MethodTable::parse on a view at the record's VA
ParseRecord ==
    /\ sc.pc = "record"
    /\ sc' = [sc EXCEPT !.pc = "parsed",
                        !.res = MethodTable_parse(PrImage(sc.rec),
                                                  View_new(PrImageBase + PrSectionRva))]
    /\ UNCHANGED <<cdc, rt, ht, hd, tg, ld, md, ida>>

ParseNext == ParseRecord

SpecParse == ParseInit /\ [][ParseNext]_vars

C24_ElementType == IF sc.rec.etype \in ElementTypes THEN sc.rec.etype ELSE ElementType_Unknown
C24_Slots(from, count) == [i \in 1 .. count |-> PrSlotVa(from + i)]
C24_Shape ==
    IF C24_ElementType = ElementType_Interface
    THEN sc.rec.base_size = 0 /\ sc.rec.related = 0
    ELSE sc.rec.base_size >= 16

\* what holds of a returned MT and of the record it was parsed from
C24_Returned ==
    (sc.pc = "parsed" /\ sc.res.ok) =>
        /\ sc.rec.vtable_count \in 0 .. 999 /\ sc.rec.iface_count \in 0 .. 999
        /\ sc.rec.held >= sc.rec.vtable_count + sc.rec.iface_count
        /\ sc.res.mt.vtable_addresses = C24_Slots(0, sc.rec.vtable_count)
        /\ sc.res.mt.iface_addresses = C24_Slots(sc.rec.vtable_count, sc.rec.iface_count)
        /\ sc.res.mt.element_type = C24_ElementType
        /\ sc.res.mt.base_size = sc.rec.base_size
        /\ sc.res.mt.related_type_address = sc.rec.related
        /\ C24_Shape

\* the counts at the bound, in records the file does not hold the slots of
C24_CountsTurnedDown ==
    sc.pc = "parsed" =>
        /\ sc.rec.vtable_count >= 1000 => sc.res = MtErr("invalid vtable slot count")
        /\ (sc.rec.vtable_count < 1000 /\ sc.rec.iface_count >= 1000)
               => sc.res = MtErr("invalid interface count")
        /\ (sc.rec.vtable_count = 999 /\ sc.rec.iface_count = 999)
               => sc.res = MtErr("read")

\* C24: every MT that MethodTable::parse returns has vtable and interface slot
\* counts in 0..999, holds exactly that many slot VAs, the vtable's first and in
\* the record's order, has the element type of bits 26..30 of flags (Unknown
\* for a value outside the enumeration), and is an Interface of base size 0
\* and related-type VA 0 or of another element type with base size >= 0x10; so
\* parse fails for every record that breaks one of these: a count of 1000 or
\* more is turned down as an invalid count, one of 999 is not
C24_Parse == C24_Returned /\ C24_CountsTurnedDown

\* an interface with slots of both kinds was returned
C24_Witness ==
    /\ sc.pc = "parsed" /\ sc.res.ok
    /\ sc.res.mt.element_type = ElementType_Interface
    /\ Len(sc.res.mt.vtable_addresses) = PrMaxSlots
    /\ Len(sc.res.mt.iface_addresses) = PrMaxSlots

\* the conditions are all there are: a record that keeps them and whose slots
\* the file holds is returned
C24_AllReturned ==
    sc.pc = "parsed" =>
        (sc.res.ok <=> /\ sc.rec.vtable_count < 1000 /\ sc.rec.iface_count < 1000
                       /\ sc.rec.held >= sc.rec.vtable_count + sc.rec.iface_count
                       /\ C24_Shape)

(***************************************************************************)
(* ReadyToRunHeader::parse and section on single headers.  The header lies *)
(* at the start of the one section of an image and declares `count`        *)
(* sections; the file holds the entries of the tags `held` behind it,      *)
(* RhMaxHeld at most, entry j starting at RhStart(j).                      *)
(***************************************************************************)
RhMaxHeld == 2
RhCounts == {0, 1, 2, 999, 1000, 32767, 32768, 65535}
\* CommonFixupsTable, EmbeddedMetadata and two blobs outside the enumeration
RhTags == {308, 313, 377, 378}
RhStart(j) == ScImageBase + 16 * j

RECURSIVE RhHelds(_)
RhHelds(n) ==
    IF n = 0 THEN {<<>>}
    ELSE RhHelds(n - 1) \cup {Append(h, t) : h \in {g \in RhHelds(n - 1) : Len(g) = n - 1},
                                               t \in RhTags}

RhEntryBytes(j, tag) ==
    LeBytes(tag, 4) \o LeBytes(0, 4) \o LeBytes(RhStart(j), 8) \o LeBytes(RhStart(j) + 8, 8)

RhImage(count, held) ==
    LET file == LdHeaderBytes(1, count)
                    \o Flatten([j \in 1 .. Len(held) |-> RhEntryBytes(j, held[j])])
    IN  [ImageBase |-> PrImageBase, SizeOfImage |-> PrSectionRva + Len(file),
         sections |-> <<[name |-> ".rdata", VirtualAddress |-> PrSectionRva,
                         VirtualSize |-> Len(file), PointerToRawData |-> 0,
                         SizeOfRawData |-> Len(file)]>>,
         file |-> file]

\* ReadyToRunHeader::section(section_type): find on the sections, copied
RECURSIVE ReadyToRunHeader_section(_, _)
ReadyToRunHeader_section(sections, section_type) ==
    IF sections = <<>> THEN None
    ELSE IF Head(sections).section_type = section_type THEN Some(Head(sections))
    ELSE ReadyToRunHeader_section(Tail(sections), section_type)

RtrHeaderInit ==
    /\ \E count \in RhCounts, held \in RhHelds(RhMaxHeld) :
        ld = [pc |-> "header", count |-> count, held |-> held,
              res |-> RtrErr("not returned"), kind |-> <<>>, found |-> None]
    /\ cdc = CodecIdle /\ rt = RtIdle /\ ht = HtIdle /\ sc = ScIdle /\ hd = HdIdle
    /\ tg = TgIdle /\ md = MdIdle /\ ida = IdaIdle

\* ReadyToRunHeader::parse on a view at the header's VA
ParseHeader ==
    /\ ld.pc = "header"
    /\ ld' = [ld EXCEPT !.pc = "parsed",
                        !.res = ReadyToRunHeader_parse(RhImage(ld.count, ld.held),
                                                       View_new(PrImageBase + PrSectionRva))]
    /\ UNCHANGED <<cdc, rt, ht, sc, hd, tg, md, ida>>

\* section(kind) on the header returned
SectionOfKind ==
    /\ ld.pc = "parsed" /\ ld.res.ok
    /\ \E tag \in RhTags :
        ld' = [ld EXCEPT !.pc = "looked up",
                         !.kind = ReadyToRunSectionType_from_u32(tag),
                         !.found = ReadyToRunHeader_section(
                                       ld.res.rtr.sections,
                                       ReadyToRunSectionType_from_u32(tag))]
    /\ UNCHANGED <<cdc, rt, ht, sc, hd, tg, md, ida>>

RtrHeaderNext == ParseHeader \/ SectionOfKind

SpecRtrHeader == RtrHeaderInit /\ [][RtrHeaderNext]_vars

\* a header of two sections of one type was looked up for that type
C30_Witness ==
    /\ ld.pc = "looked up" /\ ld.count = 2 /\ ld.found.some
    /\ ld.res.rtr.sections[1].section_type = ld.res.rtr.sections[2].section_type
    /\ ld.res.rtr.sections[1].section_type = ld.kind

C30_Parsed == ld.pc \in {"parsed", "looked up"}
C30_Negative == ld.count >= Pow2(15)

\* C30: ReadyToRunHeader::parse turns down, in its sanity check, every header
\* whose section count is negative as a signed 16-bit value or is 1000 or
\* more, as MethodTable::parse does for its slot counts
C30_CountRejected ==
    (C30_Parsed /\ (C30_Negative \/ ld.count >= 1000)) => ld.res = RtrErr("ensure")

\* C30 (the part that holds): the check turns down the counts that are
\* negative as an i16 and no other: parse goes on to read the entries of a
\* header with a count from 1000 to 32767, and fails when the file ends
C30_NegativeRejected ==
    C30_Parsed =>
        /\ C30_Negative => ld.res = RtrErr("ensure")
        /\ (~C30_Negative /\ ld.count > Len(ld.held)) => ld.res = RtrErr("read")
        /\ ld.count <= Len(ld.held) => ld.res.ok

C30_Entry(j) ==
    [view |-> (PrImageBase + PrSectionRva + 16) + 24 * (j - 1),
     section_type |-> ReadyToRunSectionType_from_u32(ld.held[j]),
     flags |-> 0, start |-> RhStart(j), end |-> RhStart(j) + 8]

\* C30 (the part that holds): a header returned holds exactly
\* number_of_sections entries, in file order, and section(kind) returns the
\* first of them whose type equals kind, or nothing when there is none
C30_Sections ==
    /\ (C30_Parsed /\ ld.res.ok) =>
        /\ ld.res.rtr.number_of_sections = ld.count
        /\ ld.res.rtr.sections = [j \in 1 .. ld.count |-> C30_Entry(j)]
    /\ ld.pc = "looked up" =>
        LET hits == {j \in 1 .. ld.count : C30_Entry(j).section_type = ld.kind}
        IN  IF hits = {} THEN ld.found = None
            ELSE ld.found = Some(C30_Entry(CHOOSE j \in hits : \A k \in hits : j <= k))

(***************************************************************************)
(* A collection field of a record, read and then iterated.  The slice      *)
(* holds ClPrefix bytes at most before the field, the count, one encoding  *)
(* per element (of 1 to 5 bytes, by the value's size) and ClSibling bytes  *)
(* of the next field; a byte collection holds its length and the bytes.    *)
(***************************************************************************)
ClPrefix == 1
ClMaxCount == 3
ClSibling == 2
\* one value for each length of encoding, 1 to 5 bytes (reader.rs:244-252)
ClValues == <<3, 200, 20000, 3000000, 268435457>>
\* HandleCollection, of BaseHandle (no kind), and TypeDefinitionHandleCollection
ClBase == -1
ClTyps == {ClBase, HandleType_TypeDefinition}
\* the lengths of byte collection: the last is written with a 5-byte prefix
ClLengths == {0, 1, 3, 200, 268435457}

RECURSIVE ClElements(_)
ClElements(n) ==
    IF n = 0 THEN {<<>>}
    ELSE ClElements(n - 1)
            \cup {Append(e, v) : e \in {g \in ClElements(n - 1) : Len(g) = n - 1},
                                 v \in 1 .. Len(ClValues)}

ClEncoding(elems) ==
    EncodeUnsigned(Len(elems))
        \o Flatten([i \in 1 .. Len(elems) |-> EncodeUnsigned(ClValues[elems[i]])])

CollectionInit ==
    /\ \/ \E p \in 0 .. ClPrefix, elems \in ClElements(ClMaxCount), typ \in ClTyps :
            md = [pc |-> "field", k |-> "collection", typ |-> typ, offset |-> p,
                  encoded |-> Len(ClEncoding(elems)), sizes |-> elems,
                  data |-> Zeros(p) \o ClEncoding(elems) \o Zeros(ClSibling),
                  read |-> <<>>, iter |-> <<>>, yielded |-> 0]
       \/ \E p \in 0 .. ClPrefix, length \in ClLengths :
            md = [pc |-> "field", k |-> "bytes", typ |-> ClBase, offset |-> p,
                  encoded |-> Len(EncodeUnsigned(length)) + length, sizes |-> <<length>>,
                  data |-> Zeros(p) \o EncodeUnsigned(length) \o Zeros(ClSibling),
                  read |-> <<>>, iter |-> <<>>, yielded |-> 0]
    /\ cdc = CodecIdle /\ rt = RtIdle /\ ht = HtIdle /\ sc = ScIdle /\ hd = HdIdle
    /\ tg = TgIdle /\ ld = LdIdle /\ ida = IdaIdle

\* reader.read::<$name>(&mut offset) in a record's parse: the field is read
ReadCollectionField ==
    /\ md.pc = "field"
    /\ md' = [md EXCEPT !.pc = IF md.k = "bytes" THEN "done" ELSE "read",
                        !.read = read_field(md.data, md.offset, MdField("field", md.k, 0))]

\* $name::iter / Iter::new (collections.rs:64-77) on the collection returned
iter_new(count) ==
    IF ~count.ok THEN count ELSE Ok([offset |-> count.off, remaining |-> count.val], count.off)
CollectionIter ==
    /\ md.pc = "read" /\ md.read.ok
    /\ md' = [md EXCEPT !.pc = "iterating",
                        !.iter = iter_new(decode_unsigned(md.data, md.read.val)).val]

\* Iter::next (collections.rs:83-91): None at remaining 0, else one element is
\* read at the iterator's offset, which the read leaves where it leaves it
iter_read(typ, data, offset) ==
    IF typ = ClBase THEN BaseHandle_read(data, offset) ELSE Handle_read(typ, data, offset)
iter_next(st) ==
    IF st.iter.remaining = 0 THEN [st EXCEPT !.pc = "exhausted"]
    ELSE [st EXCEPT !.iter = [offset |-> iter_read(st.typ, st.data, st.iter.offset).off,
                              remaining |-> st.iter.remaining - 1],
                    !.yielded = @ + 1]
CollectionIterNext ==
    /\ md.pc = "iterating"
    /\ md' = iter_next(md)

CollectionNext ==
    /\ \/ ReadCollectionField
       \/ CollectionIter
       \/ CollectionIterNext
    /\ UNCHANGED <<cdc, rt, ht, sc, hd, tg, ld, ida>>

SpecCollection == CollectionInit /\ [][CollectionNext]_vars

C22_FiveByteElement == \E i \in 1 .. Len(md.sizes) : md.sizes[i] = 5

\* C22: reading a handle-collection field leaves the cursor just behind the
\* count and the encodings of count elements, which is where iterating the
\* collection to exhaustion ends, for every count and mix of 1- to 5-byte
\* encodings; reading a byte collection advances the cursor by the length
\* prefix plus length bytes
C22_ReadAsIterated ==
    /\ md.pc = "exhausted" =>
        /\ md.read.off = md.offset + md.encoded
        /\ md.iter.offset = md.read.off
    /\ md.pc = "done" => (md.read.ok /\ md.read.off = md.offset + md.encoded)

\* C22 (the part that holds): the read of a handle collection ends just behind
\* the collection for every mix of encodings, and iteration ends there too
\* when no element has the 5-byte form
C22_ReadSkips ==
    /\ md.pc \in {"read", "iterating", "exhausted"} =>
        (md.read.ok /\ md.read.off = md.offset + md.encoded)
    /\ (md.pc = "exhausted" /\ ~C22_FiveByteElement) =>
        (md.iter.offset = md.read.off /\ md.yielded = Len(md.sizes))

\* C22 (the part that holds): a byte collection whose length has a prefix of
\* 1 to 4 bytes is read to its end; behind a 5-byte prefix the cursor is
\* advanced by 1 + length
C22_BytesAdvance ==
    md.pc = "done" =>
        /\ md.read.ok
        /\ md.read.off = md.offset + (IF md.sizes[1] >= Pow2(28) THEN 1 + md.sizes[1]
                                      ELSE md.encoded)

\* the depth of a method table of an image description below the root: the
\* number of base-type links from it to a table without a base
RECURSIVE C21_DepthOf(_, _, _)
C21_DepthOf(mts, mt, fuel) ==
    IF fuel = 0 \/ mts[mt].related \in {"none", "self"} THEN 0
    ELSE 1 + C21_DepthOf(mts, mts[mt].related, fuel - 1)
C21_Laid(spec) ==
    {it.ref : it \in UNION {{spec.content[n][i] : i \in 1 .. Len(spec.content[n])} :
                               n \in ScDataSections(spec)}} \cap DOMAIN spec.mts
C21_Depth(spec) ==
    LET ds == {C21_DepthOf(spec.mts, mt, Cardinality(DOMAIN spec.mts)) : mt \in C21_Laid(spec)}
    IN  CHOOSE d \in ds \cup {0} : \A e \in ds : e <= d

\* C21: on an image whose class MTs hang below the root in chains of depth d at
\* most, the outer loop of scan_method_tables makes at most d + 1 rounds whose
\* next-round list is shorter than the agenda, in every address order
C21_ShorterRounds ==
    sc.pc \in {"crawl", "done"} => sc.shorter <= C21_Depth(sc.spec) + 1

\* the chain of depth 3 was crawled in three such rounds
C21_Witness ==
    /\ sc.pc = "done" /\ sc.spec.kind = "chain"
    /\ C21_Depth(sc.spec) = 3 /\ sc.shorter = 3

(***************************************************************************)
(* Images in which a class is named in an interface slot: Root <- B <- X   *)
(* and Root <- Z, and Z names B in its interface slot, in every address    *)
(* order of the four and the three layouts.                                *)
(***************************************************************************)
ScSharedMts ==
    [mt \in {"Root", "B", "X", "Z"} |->
        IF mt = "Root" THEN ScObject(1)
        ELSE IF mt = "B"
            THEN ScMt(ElementType_Class, ObjectBaseSize + 8, "Root", <<3>>, <<>>, 2)
        ELSE IF mt = "X"
            THEN ScMt(ElementType_Class, ObjectBaseSize + 16, "B", <<>>, <<>>, 3)
        ELSE ScMt(ElementType_Class, ObjectBaseSize + 8, "Root", <<>>, <<"B">>, 4)]

ScSharedSpecs == ScGraphSpecs("shared", ScSharedMts)

SpecScanShared == ScanInitOn(ScSharedSpecs) /\ [][ScanNext]_vars

\* the list scan_method_tables returns: tables.into_values()
C28_Returned == {sc.tables[va] : va \in DOMAIN sc.tables}
C28_InWindow(va) ==
    /\ va_to_rva(sc.img, va).ok
    /\ ~outside_window(va_to_rva(sc.img, va).val, sc.min, sc.max)

\* C28: in the list scan_method_tables returns, an MT whose related_type is set
\* has related_type.va equal to its own related-type VA field, that VA has an
\* RVA in the window [min, max) of the candidate sections and an MT of that VA
\* is in the list; no two MTs of the list have the same VA, and the root is in
\* the list
C28_ReturnedList ==
    sc.pc = "done" =>
        /\ \A mt \in C28_Returned :
            mt.related_type.some =>
                /\ mt.related_type.val.va = mt.related_type_address
                /\ C28_InWindow(mt.related_type_address)
                /\ \E base \in C28_Returned : base.va = mt.related_type_address
        /\ \A va \in DOMAIN sc.tables : sc.tables[va].va = va
        /\ Cardinality(C28_Returned) = Cardinality(DOMAIN sc.tables)
        /\ sc.object_table.mt.va \in DOMAIN sc.tables

\* the chain's four classes and its interface were returned, three of them with
\* a related_type
C28_Witness ==
    /\ sc.pc = "done" /\ sc.spec.kind = "chain"
    /\ Cardinality({mt \in C28_Returned : mt.related_type.some}) = 3
    /\ Cardinality({mt \in C28_Returned : ~mt.related_type.some}) = 2

C29_CopyOf(mt) == mt.related_type.val
C29_Agree(copy, base) ==
    /\ copy.related_type.some = base.related_type.some
    /\ copy.related_type.some => copy.related_type.val = base.related_type.val.va

\* C29: for every returned MT X whose related_type is set, the copy of the base
\* MT behind X.related_type agrees with the returned MT of the same VA on
\* whether its own related_type is set and on that related_type's VA, also when
\* the base came into the known table through an interface slot
C29_CopyFresh ==
    sc.pc = "done" =>
        \A mt \in C28_Returned :
            mt.related_type.some =>
                \A base \in C28_Returned :
                    base.va = C29_CopyOf(mt).va => C29_Agree(C29_CopyOf(mt), base)

\* C29 (the part that holds): a copy that differs from the returned MT of its
\* VA is a copy without related_type of an MT that some returned MT names in an
\* interface slot
C29_StaleThroughSlot ==
    sc.pc = "done" =>
        \A mt \in C28_Returned :
            mt.related_type.some =>
                \A base \in C28_Returned :
                    (base.va = C29_CopyOf(mt).va /\ ~C29_Agree(C29_CopyOf(mt), base)) =>
                        /\ ~C29_CopyOf(mt).related_type.some
                        /\ \E z \in C28_Returned :
                              \E i \in 1 .. Len(z.iface_addresses) :
                                  z.iface_addresses[i] = base.va

====
